---- MODULE Spec2Model ----
(***************************************************************************)
(* Hub-based exact k-nearest-neighbour search on a 3-D point cloud         *)
(* (include/bitonic-hubs-ws.cuh): hub selection, point-to-hub assignment,  *)
(* prefix-sum bucketing, the hub distance matrix D, the ranked hub tables  *)
(* and the pruned query traversal, driven by the host function C_and_Q.    *)
(*                                                                         *)
(* Scale.  The synchronization-group width (32 in the source) is           *)
(* warp_size = 2^LogWarp, the block of fused_prefix_sum_copy and of        *)
(* fused_transform_sort_D is warp_size x warp_size threads (32 x 32 in the *)
(* source), and the distance batch (100000 in the source) is batch_size.   *)
(* Every size the source derives from these is derived here the same way.  *)
(*                                                                         *)
(* Numbers.  Coordinates are integers and arithmetic is exact.  A value    *)
(* the source obtains as sqrt(l2dist(..)) is represented by its square, an *)
(* integer: sqrt is strictly increasing, so every comparison between two   *)
(* such values is the comparison of their squares, and the one place where *)
(* such values are subtracted (the loop condition of Query) is decided     *)
(* exactly by ScanContinues.  Floating-point rounding is not modelled.     *)
(***************************************************************************)
EXTENDS Integers, Sequences, FiniteSets, TLC

(* ------------------------------ bounds -------------------------------- *)
LogWarp == 1
MaxN == 3
MaxX == 3
MaxY == 1
MaxZ == 0
batch_size == 2

RECURSIVE Pow2(_)
Pow2(e) == IF e = 0 THEN 1 ELSE 2 * Pow2(e - 1)

warp_size == Pow2(LogWarp)
block_size == warp_size * warp_size

CEIL_DIV(a, b) == (a + b - 1) \div b

Min2(a, b) == IF a < b THEN a ELSE b

(* __popc(H) == 1 *)
RECURSIVE popc(_)
popc(x) == IF x = 0 THEN 0 ELSE (x % 2) + popc(x \div 2)

(* ------------------------- the float domain --------------------------- *)
Grid == (0 .. MaxX) \X (0 .. MaxY) \X (0 .. MaxZ)
MaxDistSq == MaxX * MaxX + MaxY * MaxY + MaxZ * MaxZ

(* 0x7f000000 (2^127) and FLT_MAX: both above every distance of the cloud, *)
(* and 0x7f000000 < FLT_MAX, as floats and as the ints atomicMin compares. *)
BigExp == MaxDistSq + 1
FLT_MAX == MaxDistSq + 2

(* A value no kernel has written yet. *)
Unwritten == -1

(* spatial::l2dist: the squared Euclidean distance of two points. *)
l2dist(p, r) ==
    (p[1] - r[1]) * (p[1] - r[1]) + (p[2] - r[2]) * (p[2] - r[2])
        + (p[3] - r[3]) * (p[3] - r[3])

(* sqrt( l2dist(..) ), in the representation by squares. *)
sqrt_l2dist(p, r) == l2dist(p, r)

(* --------------------------- hub selection ---------------------------- *)
(* (seed * 1103515245 + 12345) % 2147483648 in unsigned 32-bit arithmetic: *)
(* the low 31 bits of the exact value, computed in 16-bit limbs so that no *)
(* intermediate leaves the 31-bit range.  1103515245 = 16838 * 2^16 + 20077*)
rand_num(seed) ==
    LET t0 == seed * 20077 + 12345
        lo == t0 % 65536
        t1 == seed * 16838 + (t0 \div 65536)
        hi == t1 % 32768
    IN  hi * 65536 + lo

Selected_Hub(idx, nn) == rand_num(1234 + idx) % nn

(* --------------------------- the state -------------------------------- *)
VARIABLES
    n, k, H, q, queries, points,     \* the arguments of C_and_Q and H
    pc,                              \* where the host is in C_and_Q
    batch_id,                        \* the batch loop counter
    launched,                        \* kernels launched so far, in order
    done,                            \* workers of the running kernel that finished
    dH,                              \* hub slot -> point identifier
    distances,                       \* batch distance table, [h * batch_size + p]
    dH_psum, dH_psum_copy, d_psum_placeholder,
    dH_assignments,                  \* point -> hub
    D, iD, dD,                       \* H x H, row-major
    arr_idx, arr_xyz,                \* bucketed identifiers and coordinates
    writes,                          \* slot -> number of writes BucketSort made
    smem, prog, my_val, sum_of_chunk_sofar,   \* fused_prefix_sum_copy
    tier,                            \* the WarpQ of the Query variant launched
    solutions,                       \* result row -> <<distance, id>> pairs
    abort,                           \* the failed assertion, or "none"
    buffers                          \* device buffer -> cudaMalloc and cudaFree calls

inputs == <<n, k, H, q, queries, points>>
host == <<pc, batch_id, launched, done, abort>>
hubstate == <<dH, distances, dH_assignments>>
psums == <<dH_psum, dH_psum_copy, d_psum_placeholder>>
matrices == <<D, iD, dD>>
buckets == <<arr_idx, arr_xyz, writes>>
scan == <<smem, prog, my_val, sum_of_chunk_sofar>>
query == <<tier, solutions>>
vars == <<inputs, host, hubstate, psums, matrices, buckets, scan, query, buffers>>


(* ------------------------------- Init --------------------------------- *)
(* H is a compile-time constant of the build: below the group width, the   *)
(* group width, not a power of two, and two groups.                        *)
HubCounts == {warp_size \div 2, warp_size, warp_size + warp_size \div 2, 2 * warp_size}

(* The largest tier of the Query dispatch in C_and_Q is 16 groups wide. *)
LargestTier == 16 * warp_size

Identity(nn) == [i \in 1 .. nn |-> i - 1]

(* Query lists: every point once, in order, or the last point alone. *)
QueryLists(nn) == {Identity(nn), <<nn - 1>>}

(* The device buffers of C_and_Q: those of lines 673-704, and the two      *)
(* counters of lines 751-752.                                              *)
IndexBuffers ==
    {"dH", "dH_psum", "dH_psum_copy", "d_psum_placeholder", "dH_assignments",
     "distances", "arr_x", "arr_y", "arr_z", "arr_idx", "D", "iD", "dD"}

ScanCounters == {"d_hubsScanned", "d_pointsScanned"}

cudaMalloc(bufs, names) ==
    [b \in DOMAIN bufs |->
        IF b \in names THEN [bufs[b] EXCEPT !.malloc = @ + 1] ELSE bufs[b]]

cudaFree(bufs, names) ==
    [b \in DOMAIN bufs |->
        IF b \in names THEN [bufs[b] EXCEPT !.free = @ + 1] ELSE bufs[b]]

NoBuffers == [b \in IndexBuffers \cup ScanCounters |-> [malloc |-> 0, free |-> 0]]

(* The state after the allocations and cudaMemset calls of C_and_Q. *)
Allocated ==
    /\ buffers = cudaMalloc(NoBuffers, IndexBuffers)
    /\ pc = "Randomly_Select_Hubs"
    /\ batch_id = 0
    /\ launched = <<>>
    /\ done = {}
    /\ abort = "none"
    /\ dH = [h \in 0 .. H - 1 |-> Unwritten]
    /\ distances = [c \in 0 .. H * batch_size - 1 |-> Unwritten]
    /\ dH_psum = [h \in 0 .. H |-> 0]
    /\ dH_psum_copy = [h \in 0 .. H |-> 0]
    /\ d_psum_placeholder = [h \in 0 .. H |-> 0]
    /\ dH_assignments = [i \in 0 .. n - 1 |-> 0]
    /\ D = [c \in 0 .. H * H - 1 |-> Unwritten]
    /\ iD = [c \in 0 .. H * H - 1 |-> Unwritten]
    /\ dD = [c \in 0 .. H * H - 1 |-> Unwritten]
    /\ arr_idx = [i \in 0 .. n - 1 |-> Unwritten]
    /\ arr_xyz = [i \in 0 .. n - 1 |-> <<Unwritten, Unwritten, Unwritten>>]
    /\ writes = [i \in 0 .. n - 1 |-> 0]
    /\ smem = [i \in 0 .. warp_size |-> Unwritten]
    /\ prog = [w \in 0 .. warp_size - 1 |-> 0]
    /\ my_val = [w \in 0 .. warp_size - 1 |-> [l \in 0 .. warp_size - 1 |-> 0]]
    /\ sum_of_chunk_sofar = 0
    /\ tier = 0
    /\ solutions = [i \in 0 .. n - 1 |-> <<>>]

(* The inputs.  Every cloud of up to MaxN grid points, and every cloud of   *)
(* MaxN + 1 points on the x axis with 1 < k < n, is run with a well-formed *)
(* configuration and the query list of all points; the clouds whose points *)
(* sit in two opposite corners are run with every H, every k up to n + 1   *)
(* and both query lists; one point is run with every k up to one above the *)
(* largest tier.                                                           *)
Corners == {<<0, 0, 0>>, <<MaxX, MaxY, MaxZ>>}
Axis == {<<x, 0, 0>> : x \in 0 .. MaxX}

Init ==
    /\ \/ /\ n \in 1 .. MaxN
          /\ points \in [0 .. n - 1 -> Grid]
          /\ H \in {warp_size, 2 * warp_size}
          /\ k \in 1 .. n
          /\ queries = Identity(n)
       \/ /\ n = MaxN + 1
          /\ points \in [0 .. n - 1 -> Axis]
          /\ H \in {warp_size, 2 * warp_size}
          /\ k \in 2 .. n - 1
          /\ queries = Identity(n)
       \/ /\ n \in 1 .. MaxN
          /\ points \in [0 .. n - 1 -> Corners]
          /\ H \in HubCounts
          /\ k \in 1 .. n + 1
          /\ queries \in QueryLists(n)
       \/ /\ n = 1
          /\ points = [i \in 0 .. 0 |-> <<0, 0, 0>>]
          /\ H = warp_size
          /\ k \in 1 .. LargestTier + 1
          /\ queries = <<0>>
    /\ q = Len(queries)
    /\ Allocated

(* ------------------------- Randomly_Select_Hubs ----------------------- *)
Randomly_Select_Hubs ==
    /\ pc = "Randomly_Select_Hubs"
    /\ dH' = [idx \in 0 .. H - 1 |-> Selected_Hub(idx, n)]
    /\ launched' = Append(launched, "Randomly_Select_Hubs")
    /\ pc' = "set_max_float"
    /\ UNCHANGED <<inputs, buffers, batch_id, done, abort, distances,
                   dH_assignments,
                   psums, matrices, buckets, scan, query>>

(* ----------------------------- set_max_float -------------------------- *)
set_max_float ==
    /\ pc = "set_max_float"
    /\ D' = [c \in 0 .. H * H - 1 |-> FLT_MAX]
    /\ launched' = Append(launched, "set_max_float")
    /\ batch_id' = 0
    /\ pc' = "batch"
    /\ UNCHANGED <<inputs, buffers, done, abort, hubstate, psums, iD, dD,
                   buckets, scan, query>>

(* ---------------------------- Calculate_Distances --------------------- *)
batch_number == CEIL_DIV(n, batch_size)

(* The points of batch b: the workers idx_within_b that pass the guard. *)
BatchWorkers(b) == {t \in 0 .. batch_size - 1 : b * batch_size + t < n}

(* The loop over h with <= for <: of equidistant hubs the last one wins. *)
RECURSIVE NearestHubLoop_LastTie(_, _)
NearestHubLoop_LastTie(p, h) ==
    IF h = 0 THEN <<H + 1, FLT_MAX>>
    ELSE LET prev == NearestHubLoop_LastTie(p, h - 1)
             next_hub_distance == sqrt_l2dist(p, points[dH[h - 1]])
         IN  IF next_hub_distance <= prev[2]
             THEN <<h - 1, next_hub_distance>>
             ELSE prev

(* The loop over h of one worker: <<assigned_H, minimal_dist>> after hubs 0 .. h-1. *)
RECURSIVE NearestHubLoop(_, _)
NearestHubLoop(p, h) ==
    IF h = 0 THEN <<H + 1, FLT_MAX>>
    ELSE LET prev == NearestHubLoop(p, h - 1)
             next_hub_distance == sqrt_l2dist(p, points[dH[h - 1]])
         IN  IF next_hub_distance < prev[2]
             THEN <<h - 1, next_hub_distance>>
             ELSE prev

(* The assignment that gives a point to the highest slot among its nearest. *)
assigned_H_HighestSlot(p) ==
    LET near == {h \in 0 .. H - 1 :
                   \A g \in 0 .. H - 1 :
                       sqrt_l2dist(p, points[dH[h]]) <= sqrt_l2dist(p, points[dH[g]])}
    IN  CHOOSE h \in near : \A g \in near : g <= h

assigned_H(p) == NearestHubLoop(p, H)[1]

(* The head of the batch loop: launch Calculate_Distances for the next batch, *)
(* or leave the loop (cudaFree(distances)) and launch fused_prefix_sum_copy.  *)
BatchLoop ==
    /\ pc = "batch"
    /\ IF batch_id < batch_number
       THEN /\ pc' = "Calculate_Distances"
            /\ launched' = Append(launched, "Calculate_Distances")
            /\ UNCHANGED buffers
       ELSE /\ pc' = "fused_prefix_sum_copy"
            /\ buffers' = cudaFree(buffers, {"distances"})          \* line 722
            /\ UNCHANGED launched
    /\ done' = {}
    /\ UNCHANGED <<inputs, batch_id, abort, hubstate, psums, matrices, buckets,
                   scan, query>>

(* One worker of Calculate_Distances, idx_within_b = t. *)
Calculate_Distances(t) ==
    /\ pc = "Calculate_Distances"
    /\ t \in BatchWorkers(batch_id) \ done
    /\ LET idx == batch_id * batch_size + t
           hub == assigned_H(points[idx])
       IN  /\ distances' = [c \in DOMAIN distances |->
                              IF c % batch_size = t
                              THEN sqrt_l2dist(points[idx], points[dH[c \div batch_size]])
                              ELSE distances[c]]
           /\ dH_assignments' = [dH_assignments EXCEPT ![idx] = hub]
           /\ dH_psum' = [dH_psum EXCEPT ![hub] = @ + 1]        \* atomicAdd
    /\ done' = done \cup {t}
    /\ UNCHANGED <<inputs, buffers, pc, batch_id, launched, abort, dH,
                   dH_psum_copy,
                   d_psum_placeholder, matrices, buckets, scan, query>>

(* ------------------------------- Construct_D -------------------------- *)
(* s_dists[j] with a plain store in place of atomicMin: of the batch's    *)
(* points in hub j the one with the highest worker index is kept.          *)
s_dists_PlainStore(hub_id, j) ==
    LET owners == {u \in BatchWorkers(batch_id) :
                     dH_assignments[batch_id * batch_size + u] = j}
    IN  IF owners = {} THEN BigExp
        ELSE distances[hub_id * batch_size
                         + CHOOSE t \in owners : \A u \in owners : u <= t]

(* s_dists[j] of block hub_id after the atomicMin loop over the batch. *)
s_dists(hub_id, j) ==
    LET cand == {distances[hub_id * batch_size + t] :
                    t \in {u \in BatchWorkers(batch_id) :
                             dH_assignments[batch_id * batch_size + u] = j}}
    IN  IF cand = {} THEN BigExp
        ELSE Min2(BigExp, CHOOSE m \in cand : \A c \in cand : m <= c)

(* The write-back without the atomicMin against the cell's old value. *)
D_cell_LastBatch(hub_id, j) == s_dists(hub_id, j)

(* The cell the block writes back: atomicMin with the cell's old value. *)
D_cell(hub_id, j) == Min2(s_dists(hub_id, j), D[H * hub_id + j])

Construct_D ==
    /\ pc = "Calculate_Distances"
    /\ done = BatchWorkers(batch_id)
    /\ launched' = Append(launched, "Construct_D")
    /\ IF H <= 2 * block_size
          /\ \A t \in BatchWorkers(batch_id) :
                dH_assignments[batch_id * batch_size + t] < H
       THEN /\ D' = [c \in 0 .. H * H - 1 |-> D_cell(c \div H, c % H)]
            /\ batch_id' = batch_id + 1
            /\ pc' = "batch"
            /\ UNCHANGED abort
       ELSE /\ abort' = "Construct_D"
            /\ pc' = "aborted"
            /\ UNCHANGED <<D, batch_id>>
    /\ UNCHANGED <<inputs, buffers, done, hubstate, psums, iD, dD, buckets,
                   scan, query>>

(* ------------------------ fused_prefix_sum_copy ----------------------- *)
(* The kernel runs as one block of warp_size warps of warp_size lanes.  A   *)
(* warp is the unit of interleaving (its lanes run in lock step); prog[w]   *)
(* counts the segments warp w has completed.  Segment 3*it is the loop body *)
(* of chunk `it` up to the first __syncthreads (load, warp scan, staging    *)
(* write), segment 3*it + 1 the part between the two barriers (the scan of  *)
(* the staged sums by warp 0), segment 3*it + 2 the part after the second   *)
(* barrier (add the base, store, carry in smem[0]).  Nothing separates      *)
(* segment 3*it + 2 of one warp from segment 3*(it+1) of another.           *)

(* What an unwritten shared-memory slot may hold. *)
UninitValues == {0, 1}

(* Chunks warp w iterates over: th_id < H, then i += blockDim.x * blockDim.y. *)
Chunks(w) ==
    IF w * warp_size >= H THEN 0
    ELSE CEIL_DIV(H - w * warp_size, block_size)

Finished(w) == prog[w] = 3 * Chunks(w)

(* __syncthreads: every warp that has not exited has arrived. *)
BarrierOpen(p) == \A v \in 0 .. warp_size - 1 : Finished(v) \/ prog[v] >= p

(* prefix_sum_warp: the shuffle-up scan, strides 1, 2, 4, ... < warp_size. *)
RECURSIVE prefix_sum_warp(_, _)
prefix_sum_warp(val, stride) ==
    IF stride >= warp_size THEN val
    ELSE prefix_sum_warp(
            [l \in 0 .. warp_size - 1 |->
                IF l >= stride THEN val[l] + val[l - stride] ELSE val[l]],
            2 * stride)

ChunkIndex(w, l, it) == w * warp_size + l + it * block_size

(* The launch of line 727 and the two assertions at the head of the kernel. *)
fused_prefix_sum_copy ==
    /\ pc = "fused_prefix_sum_copy"
    /\ launched' = Append(launched, "fused_prefix_sum_copy")
    /\ IF popc(H) = 1 /\ H >= warp_size
       THEN /\ pc' = "prefix_sum_running"
            /\ UNCHANGED abort
       ELSE /\ pc' = "aborted"
            /\ abort' = "fused_prefix_sum_copy"
    /\ \E g \in UninitValues : smem' = [i \in 0 .. warp_size |-> g]
    /\ prog' = [w \in 0 .. warp_size - 1 |-> 0]
    /\ UNCHANGED <<inputs, buffers, batch_id, done, hubstate, psums,
                   matrices, buckets,
                   my_val, sum_of_chunk_sofar, query>>

(* Segment 3*it: lines 192-207. *)
ScanLoad(w, it) ==
    LET loaded == [l \in 0 .. warp_size - 1 |-> dH_psum[ChunkIndex(w, l, it)]]
        scanned == prefix_sum_warp(loaded, 1)
    IN  /\ my_val' = [my_val EXCEPT ![w] = scanned]
        /\ smem' = [i \in 0 .. warp_size |->
                      IF i = w + 1 THEN scanned[warp_size - 1]
                      ELSE IF i = 0 /\ w = 0 /\ it = 0 THEN 0
                      ELSE smem[i]]
        /\ UNCHANGED <<dH_psum, dH_psum_copy, sum_of_chunk_sofar>>

(* Segment 3*it + 1: lines 210-227, the work of warp 0. *)
ScanWarpSums(w) ==
    IF w = 0
    THEN LET fetched == [l \in 0 .. warp_size - 1 |->
                            smem[l + 1] + (IF l = 0 THEN smem[0] ELSE 0)]
             warp_level_sum == prefix_sum_warp(fetched, 1)
         IN  /\ smem' = [i \in 0 .. warp_size |->
                           IF i = 0 THEN smem[0] ELSE warp_level_sum[i - 1]]
             /\ sum_of_chunk_sofar' = warp_level_sum[warp_size - 1]
             /\ UNCHANGED <<dH_psum, dH_psum_copy, my_val>>
    ELSE UNCHANGED <<smem, sum_of_chunk_sofar, dH_psum, dH_psum_copy, my_val>>

(* Segment 3*it + 2: lines 233-238. *)
ScanStore(w, it) ==
    LET out == [l \in 0 .. warp_size - 1 |-> my_val[w][l] + smem[w]]
        mine == {ChunkIndex(w, l, it) : l \in 0 .. warp_size - 1}
        lane(i) == i - w * warp_size - it * block_size
    IN  /\ dH_psum' = [i \in DOMAIN dH_psum |->
                         IF i \in mine THEN out[lane(i)] ELSE dH_psum[i]]
        /\ dH_psum_copy' = [i \in DOMAIN dH_psum_copy |->
                         IF i \in mine THEN out[lane(i)] ELSE dH_psum_copy[i]]
        /\ my_val' = [my_val EXCEPT ![w] = out]
        /\ smem' = IF w = 0 THEN [smem EXCEPT ![0] = sum_of_chunk_sofar] ELSE smem
        /\ UNCHANGED sum_of_chunk_sofar

(* One warp runs its next segment. *)
PrefixSumWarp(w) ==
    /\ pc = "prefix_sum_running"
    /\ ~Finished(w)
    /\ CASE prog[w] % 3 = 0 -> ScanLoad(w, prog[w] \div 3)
         [] prog[w] % 3 = 1 -> BarrierOpen(prog[w]) /\ ScanWarpSums(w)
         [] OTHER           -> BarrierOpen(prog[w]) /\ ScanStore(w, prog[w] \div 3)
    /\ prog' = [prog EXCEPT ![w] = @ + 1]
    /\ UNCHANGED <<inputs, buffers, host, hubstate, d_psum_placeholder,
                   matrices, buckets,
                   query>>

(* Lines 728-739: the host shifts the inclusive sums one slot to the right *)
(* and launches BucketSort on the copy.                                    *)
ShiftOffsets ==
    /\ pc = "prefix_sum_running"
    /\ \A w \in 0 .. warp_size - 1 : Finished(w)
    /\ LET placeholder == dH_psum_copy
           shifted == [i \in 0 .. H |-> IF i = 0 THEN 0 ELSE placeholder[i - 1]]
       IN  /\ d_psum_placeholder' = placeholder
           /\ dH_psum_copy' = shifted
           /\ dH_psum' = shifted
    /\ smem' = [i \in 0 .. warp_size |-> Unwritten]
    /\ prog' = [w \in 0 .. warp_size - 1 |-> 0]
    /\ my_val' = [w \in 0 .. warp_size - 1 |-> [l \in 0 .. warp_size - 1 |-> 0]]
    /\ sum_of_chunk_sofar' = 0
    /\ pc' = "BucketSort"
    /\ launched' = Append(launched, "BucketSort")
    /\ done' = {}
    /\ buffers' = cudaFree(buffers, {"d_psum_placeholder"})          \* line 735
    /\ UNCHANGED <<inputs, batch_id, abort, hubstate, matrices, buckets, query>>

(* ------------------------------- BucketSort --------------------------- *)
(* The worker with the cursor left where it was read. *)
BucketSort_LostUpdate(idx) ==
    /\ pc = "BucketSort"
    /\ idx \in (0 .. n - 1) \ done
    /\ LET loc == dH_psum_copy[dH_assignments[idx]]
       IN  /\ dH_psum_copy' = dH_psum_copy
           /\ IF loc \in 0 .. n - 1
              THEN /\ arr_idx' = [arr_idx EXCEPT ![loc] = idx]
                   /\ arr_xyz' = [arr_xyz EXCEPT ![loc] = points[idx]]
                   /\ writes' = [writes EXCEPT ![loc] = @ + 1]
              ELSE UNCHANGED <<arr_idx, arr_xyz, writes>>
    /\ done' = done \cup {idx}
    /\ UNCHANGED <<inputs, buffers, pc, batch_id, launched, abort, hubstate,
                   dH_psum,
                   d_psum_placeholder, matrices, scan, query>>

(* One worker: atomicAdd on its hub's cursor, then the writes to the slot   *)
(* it claimed.  A slot outside the arrays is not recorded.                  *)
BucketSort(idx) ==
    /\ pc = "BucketSort"
    /\ idx \in (0 .. n - 1) \ done
    /\ LET hub_idx == dH_assignments[idx]
           loc == dH_psum_copy[hub_idx]
       IN  /\ dH_psum_copy' = [dH_psum_copy EXCEPT ![hub_idx] = @ + 1]
           /\ IF loc \in 0 .. n - 1
              THEN /\ arr_idx' = [arr_idx EXCEPT ![loc] = idx]
                   /\ arr_xyz' = [arr_xyz EXCEPT ![loc] = points[idx]]
                   /\ writes' = [writes EXCEPT ![loc] = @ + 1]
              ELSE UNCHANGED <<arr_idx, arr_xyz, writes>>
    /\ done' = done \cup {idx}
    /\ UNCHANGED <<inputs, buffers, pc, batch_id, launched, abort, hubstate,
                   dH_psum,
                   d_psum_placeholder, matrices, scan, query>>

(* -------------------------- fused_transform_sort_D -------------------- *)
(* A row is a function from the global lane (r * block_size + sort_id) to   *)
(* the <<dist, hub>> pair the owning thread holds in its registers.         *)

(* bitonic::sort<ascending, 1>: one group sorts the pairs of its lanes by   *)
(* dist.  Insertion after the equal keys: the order of ties is the order of *)
(* the lanes.                                                               *)
(* The row f itself (f @@ <<>> = f), held as an enumerated function so   *)
(* that each stage of the network is evaluated once.                     *)
Registers(f) == f @@ <<>>

RECURSIVE InsertPair(_, _, _)
InsertPair(x, s, ascending) ==
    IF s = <<>> THEN <<x>>
    ELSE IF (ascending /\ x[1] < Head(s)[1]) \/ (~ascending /\ x[1] > Head(s)[1])
         THEN <<x>> \o s
         ELSE <<Head(s)>> \o InsertPair(x, Tail(s), ascending)

RECURSIVE SortPairs(_, _)
SortPairs(s, ascending) ==
    IF s = <<>> THEN <<>>
    ELSE InsertPair(s[Len(s)], SortPairs(SubSeq(s, 1, Len(s) - 1), ascending), ascending)

(* Every group g \div warp_size sorts its lanes, in the direction asc[g]. *)
bitonic_sort(row, asc) ==
    Registers([g \in DOMAIN row |->
        LET base == (g \div warp_size) * warp_size
            run == [l \in 1 .. warp_size |-> row[base + l - 1]]
        IN  SortPairs(run, asc[g])[g - base + 1]])

(* paired_thread = global_lane_id ^ stride, stride a power of two. *)
Xor(g, stride) == IF (g \div stride) % 2 = 0 THEN g + stride ELSE g - stride

(* global_lane_id & coop, coop a power of two. *)
BitSet(g, coop) == (g \div coop) % 2 = 1

(* The test of lines 503-506: the thread takes its partner's pair. *)
TakesPartner(g, paired_thread, coop, paired_dist, dist) ==
    \/ paired_thread > g /\ ~BitSet(g, coop) /\ paired_dist < dist
    \/ paired_thread < g /\ BitSet(g, coop) /\ paired_dist < dist
    \/ paired_thread > g /\ BitSet(g, coop) /\ paired_dist > dist
    \/ paired_thread < g /\ ~BitSet(g, coop) /\ paired_dist > dist

(* The sub-stage with the assignment of line 509 left out: the thread      *)
(* takes its partner's distance and keeps its own hub.                     *)
MergeSubStage_KeepsHub(row, coop, stride) ==
    [g \in DOMAIN row |->
        LET paired_thread == Xor(g, stride)
        IN  IF \/ paired_thread > g /\ (g \div coop) % 2 = 0 /\ row[paired_thread][1] < row[g][1]
               \/ paired_thread < g /\ (g \div coop) % 2 = 1 /\ row[paired_thread][1] < row[g][1]
               \/ paired_thread > g /\ (g \div coop) % 2 = 1 /\ row[paired_thread][1] > row[g][1]
               \/ paired_thread < g /\ (g \div coop) % 2 = 0 /\ row[paired_thread][1] > row[g][1]
            THEN <<row[paired_thread][1], row[g][2]>>
            ELSE row[g]] @@ <<>>

(* One merge sub-stage through shared memory: lines 479-513. *)
MergeSubStage(row, coop, stride) ==
    Registers([g \in DOMAIN row |->
        LET paired_thread == Xor(g, stride)
        IN  IF TakesPartner(g, paired_thread, coop, row[paired_thread][1], row[g][1])
            THEN row[paired_thread]
            ELSE row[g]])

RECURSIVE MergeStrides(_, _, _)
MergeStrides(row, coop, stride) ==
    IF stride < warp_size THEN row
    ELSE MergeStrides(MergeSubStage(row, coop, stride), coop, stride \div 2)

(* The direction of lines 516-524 the other way round. *)
AscendingAt_Descending(coop, g) == BitSet(g, coop)

AscendingAt(coop, g) == ~BitSet(g, coop)

RECURSIVE MergeStages(_, _, _)
MergeStages(row, coop, hubs) ==
    IF coop > hubs THEN row
    ELSE MergeStages(bitonic_sort(MergeStrides(row, coop, coop \div 2),
                                  [g \in DOMAIN row |-> AscendingAt(coop, g)]),
                     2 * coop, hubs)

(* The sorted runs of lines 464-471: direction by the parity of warp_id. *)
InitialRunAscending(g) == ((g \div warp_size) % (block_size \div warp_size)) % 2 = 0

(* The row the block of hub_id leaves in its registers. *)
SortedRow(Dm, hubs, hub_id) ==
    LET cells == [g \in 0 .. hubs - 1 |-> <<Dm[hubs * hub_id + g], g>>]
    IN  MergeStages(bitonic_sort(cells, [g \in 0 .. hubs - 1 |-> InitialRunAscending(g)]),
                    2 * warp_size, hubs)

(* Lines 530-534: every block writes its row of both matrices. *)
WriteRanked(sorted) ==
    /\ iD' = [c \in 0 .. H * H - 1 |-> sorted[c \div H][c % H][2]]
    /\ dD' = [c \in 0 .. H * H - 1 |-> sorted[c \div H][c % H][1]]

(* The ranking launched while BucketSort workers are still running. *)
fused_transform_sort_D_NoBarrier ==
    /\ pc = "BucketSort"
    /\ launched' = Append(launched, "fused_transform_sort_D")
    /\ WriteRanked(Registers([hub_id \in 0 .. H - 1 |-> SortedRow(D, H, hub_id)]))
    /\ pc' = "dispatch"
    /\ buffers' = cudaFree(buffers, {"dH_psum_copy", "D"})       \* lines 741, 747
    /\ UNCHANGED <<inputs, batch_id, done, abort, hubstate, psums, D, buckets,
                   scan, query>>

(* Lines 745-747: launched once every BucketSort worker has finished. *)
fused_transform_sort_D ==
    /\ pc = "BucketSort"
    /\ done = 0 .. n - 1
    /\ launched' = Append(launched, "fused_transform_sort_D")
    /\ WriteRanked(Registers([hub_id \in 0 .. H - 1 |-> SortedRow(D, H, hub_id)]))
    /\ pc' = "dispatch"
    /\ buffers' = cudaFree(buffers, {"dH_psum_copy", "D"})       \* lines 741, 747
    /\ UNCHANGED <<inputs, batch_id, done, abort, hubstate, psums, D, buckets,
                   scan, query>>

(* ---------------------------------- Query ----------------------------- *)
(* The switch of lines 757-780: case c launches Query<WarpQ, ..> with WarpQ *)
(* 32, 64, 128, 256, 512 for c = 1 .. 5, that is warp_size * 2^(c-1).       *)
WarpQ(c) == warp_size * Pow2(c - 1)

QueryDispatch ==
    /\ pc = "dispatch"
    /\ LET c == CEIL_DIV(k, warp_size)
       IN  IF c \in 1 .. 5
           THEN /\ tier' = WarpQ(c)
                /\ launched' = Append(launched, "Query")
                /\ pc' = "Query"
                /\ UNCHANGED abort
           ELSE /\ abort' = "C_and_Q"
                /\ pc' = "aborted"
                /\ UNCHANGED <<tier, launched>>
    /\ done' = {}
    /\ buffers' = cudaMalloc(buffers, ScanCounters)              \* lines 751-752
    /\ UNCHANGED <<inputs, batch_id, hubstate, psums, matrices, buckets, scan,
                   solutions>>

(* The bounded top-K collector (faiss WarpSelect): the K smallest pairs    *)
(* seen, ascending, K copies of <<FLT_MAX, -1>> to begin with.  A pair     *)
(* enters only when its distance is below the worst retained one.          *)
(* The collector as wide as the variant's WarpQ instead of K. *)
heap_init_WarpQ(K) == [i \in 1 .. tier |-> <<FLT_MAX, -1>>]

heap_init(K) == [i \in 1 .. K |-> <<FLT_MAX, -1>>]

warpKTop(heap) == heap[Len(heap)][1]

heap_add1(heap, pair) ==
    IF pair[1] < warpKTop(heap)
    THEN SubSeq(InsertPair(pair, heap, TRUE), 1, Len(heap))
    ELSE heap

RECURSIVE heap_add(_, _, _)
heap_add(heap, batch, lane) ==
    IF lane >= warp_size THEN heap
    ELSE heap_add(heap_add1(heap, batch[lane]), batch, lane + 1)

(* The loop condition in the opposite sense: the body runs while          *)
(* sqrt( warpKTop ) > dist_to_this_hub - dist_to_my_hub does not hold.     *)
ScanContinues_Inverted(top, dist_to_this_hub, dist_to_my_hub) ==
    IF dist_to_this_hub >= BigExp THEN TRUE
    ELSE IF top = FLT_MAX THEN FALSE
    ELSE LET t == dist_to_this_hub - top - dist_to_my_hub
         IN  ~(t < 0 \/ 4 * top * dist_to_my_hub > t * t)

(* The loop condition with the query's distance to its own hub left out. *)
ScanContinues_NoOwnHub(top, dist_to_this_hub, dist_to_my_hub) ==
    IF dist_to_this_hub >= BigExp THEN FALSE
    ELSE IF top = FLT_MAX THEN TRUE
    ELSE top > dist_to_this_hub

(* sqrt( warpKTop ) > dist_to_this_hub - dist_to_my_hub, exactly.  The two *)
(* hub distances are square roots held by their squares.  A cell at        *)
(* 0x7f000000 or above exceeds sqrt(FLT_MAX) by more than any distance;    *)
(* otherwise rt(w) + rt(m) > rt(d) iff d - w - m < 0 or 4wm > (d - w - m)^2.*)
ScanContinues(top, dist_to_this_hub, dist_to_my_hub) ==
    IF dist_to_this_hub >= BigExp THEN FALSE
    ELSE IF top = FLT_MAX THEN TRUE
    ELSE LET t == dist_to_this_hub - top - dist_to_my_hub
         IN  t < 0 \/ 4 * top * dist_to_my_hub > t * t

(* The batch with the lanes past the end of the bucket at distance 0. *)
NextBatch_ZeroPad(qxyz, scan_hub_from, scan_hub_to) ==
    [lane \in 0 .. warp_size - 1 |->
        IF scan_hub_from + lane < scan_hub_to
        THEN <<l2dist(qxyz, arr_xyz[scan_hub_from + lane]), arr_idx[scan_hub_from + lane]>>
        ELSE <<0, n>>]

(* The term of lines 587 and 611. *)
ScannedTerm(scan_hub_from, scan_hub_to) ==
    IF warp_size > scan_hub_to - scan_hub_from THEN scan_hub_to - scan_hub_from
    ELSE warp_size

(* The batch one group inserts: lines 596-607. *)
NextBatch(qxyz, scan_hub_from, scan_hub_to) ==
    [lane \in 0 .. warp_size - 1 |->
        IF scan_hub_from + lane < scan_hub_to
        THEN <<l2dist(qxyz, arr_xyz[scan_hub_from + lane]), arr_idx[scan_hub_from + lane]>>
        ELSE <<FLT_MAX, n>>]

(* The while loop of lines 589-625; st holds the loop's variables, and in  *)
(* st.tests the history of the loop: <<warpKTop, dist_to_this_hub>> as     *)
(* they stood at each test of line 589 that let the body run, and in       *)
(* st.visits <<current_H, scan_hub_from, scan_hub_to>> as they stood at     *)
(* each batch (lines 596-609).                                              *)
RECURSIVE QueryLoop(_, _, _, _)
QueryLoop(hub_containing_qp, qxyz, dist_to_my_hub, st) ==
    IF st.hubs_processed < H
          /\ ScanContinues(warpKTop(st.heap), st.dist_to_this_hub, dist_to_my_hub)
    THEN LET heap2 == heap_add(st.heap, NextBatch(qxyz, st.scan_hub_from, st.scan_hub_to), 0)
             from2 == st.scan_hub_from + warp_size
             hp2 == st.hubs_processed + 1
             current_H == iD[hub_containing_qp * H + hp2]
             tests2 == Append(st.tests, <<warpKTop(st.heap), st.dist_to_this_hub>>)
             visits2 == Append(st.visits,
                               <<st.current_H, st.scan_hub_from, st.scan_hub_to>>)
             scanned2 == st.poitns_scanned
                            + ScannedTerm(st.scan_hub_from, st.scan_hub_to)
         IN  QueryLoop(hub_containing_qp, qxyz, dist_to_my_hub,
                IF from2 >= st.scan_hub_to
                THEN IF hp2 < H
                     THEN [heap |-> heap2, hubs_processed |-> hp2,
                           current_H |-> current_H,
                           scan_hub_from |-> dH_psum[current_H],
                           scan_hub_to |-> dH_psum[current_H + 1],
                           dist_to_this_hub |-> dD[hub_containing_qp * H + hp2],
                           batches |-> st.batches + 1, tests |-> tests2,
                           visits |-> visits2, poitns_scanned |-> scanned2]
                     ELSE [st EXCEPT !.heap = heap2, !.hubs_processed = hp2,
                                     !.scan_hub_from = from2,
                                     !.batches = st.batches + 1, !.tests = tests2,
                                     !.visits = visits2,
                                     !.poitns_scanned = scanned2]
                ELSE [st EXCEPT !.heap = heap2, !.scan_hub_from = from2,
                                !.batches = st.batches + 1, !.tests = tests2,
                                !.visits = visits2, !.poitns_scanned = scanned2])
    ELSE st

(* The loop's state on exit, for the query of sequence number qs. *)
QueryExit(qs) ==
    LET qp == arr_idx[qs]
        hub_containing_qp == dH_assignments[qp]
        dist_to_my_hub == sqrt_l2dist(points[qp], points[dH[hub_containing_qp]])
    IN  QueryLoop(hub_containing_qp, points[qp], dist_to_my_hub,
            [heap |-> heap_init(k), hubs_processed |-> 0,
             current_H |-> hub_containing_qp,
             scan_hub_from |-> dH_psum[hub_containing_qp],
             scan_hub_to |-> dH_psum[hub_containing_qp + 1],
             dist_to_this_hub |-> dD[hub_containing_qp * H],
             batches |-> 0, tests |-> <<>>, visits |-> <<>>,
             poitns_scanned |-> ScannedTerm(dH_psum[hub_containing_qp],
                                            dH_psum[hub_containing_qp + 1])])

(* One group of the Query kernel: query_sequence_id = qs < Points_num = n.  *)
(* heap.writeOut stores the K pairs at offset K * qp of the result arrays.  *)
(* The groups share no state they write, and are run in the order of their  *)
(* sequence numbers.                                                        *)
Query(qs) ==
    /\ pc = "Query"
    /\ qs \in (0 .. n - 1) \ done
    /\ \A earlier \in 0 .. qs - 1 : earlier \in done
    /\ solutions' = [solutions EXCEPT ![arr_idx[qs]] = QueryExit(qs).heap]
    /\ done' = done \cup {qs}
    /\ UNCHANGED <<inputs, buffers, pc, batch_id, launched, abort, hubstate,
                   psums,
                   matrices, buckets, scan, tier>>

(* Lines 788-798: the kernel has finished; the cudaFree calls that end C_and_Q. *)
Finish ==
    /\ pc = "Query"
    /\ done = 0 .. n - 1
    /\ pc' = "done"
    /\ buffers' = cudaFree(buffers, {"iD", "dD", "dH_psum", "dH_assignments",
                                     "distances", "arr_idx", "arr_x", "arr_y", "arr_z"})
    /\ UNCHANGED <<inputs, batch_id, launched, done, abort, hubstate, psums,
                   matrices, buckets, scan, query>>

Next ==
    \/ Randomly_Select_Hubs
    \/ set_max_float
    \/ BatchLoop
    \/ \E t \in 0 .. batch_size - 1 : Calculate_Distances(t)
    \/ Construct_D
    \/ fused_prefix_sum_copy
    \/ \E w \in 0 .. warp_size - 1 : PrefixSumWarp(w)
    \/ ShiftOffsets
    \/ \E idx \in 0 .. MaxN : BucketSort(idx)
    \/ fused_transform_sort_D
    \/ QueryDispatch
    \/ \E qs \in 0 .. MaxN : Query(qs)
    \/ Finish

Spec == Init /\ [][Next]_vars


(* ---------------------------------------------------------------------- *)
(* The prefix sum on its own: the state at line 727 with any assignment    *)
(* table of up to MaxN points over H hubs and the counters that            *)
(* Calculate_Distances' atomicAdd leaves for it, H up to the 2 * block_size *)
(* that Construct_D admits.  Nothing from here to BucketSort reads the      *)
(* points, the distances or D: they stand as allocated.                     *)
ScanHubCounts == {warp_size, block_size, 2 * block_size}

RECURSIVE LaunchedBatches(_)
LaunchedBatches(b) ==
    IF b = 0 THEN <<"Randomly_Select_Hubs", "set_max_float">>
    ELSE LaunchedBatches(b - 1) \o <<"Calculate_Distances", "Construct_D">>

PsumInit ==
    /\ n \in 1 .. MaxN
    /\ H \in ScanHubCounts
    /\ k = 1
    /\ queries = Identity(n)
    /\ q = n
    /\ points = [i \in 0 .. n - 1 |-> <<0, 0, 0>>]
    /\ pc = "fused_prefix_sum_copy"
    /\ buffers = cudaFree(cudaMalloc(NoBuffers, IndexBuffers), {"distances"})
    /\ batch_id = CEIL_DIV(n, batch_size)
    /\ launched = LaunchedBatches(CEIL_DIV(n, batch_size))
    /\ done = {}
    /\ abort = "none"
    /\ dH = [h \in 0 .. H - 1 |-> Selected_Hub(h, n)]
    /\ distances = [c \in 0 .. H * batch_size - 1 |-> Unwritten]
    /\ dH_assignments \in [0 .. n - 1 -> 0 .. H - 1]
    /\ dH_psum = [h \in 0 .. H |->
                    Cardinality({p \in 0 .. n - 1 : dH_assignments[p] = h})]
    /\ dH_psum_copy = [h \in 0 .. H |-> 0]
    /\ d_psum_placeholder = [h \in 0 .. H |-> 0]
    /\ D = [c \in 0 .. H * H - 1 |-> BigExp]
    /\ iD = [c \in 0 .. H * H - 1 |-> Unwritten]
    /\ dD = [c \in 0 .. H * H - 1 |-> Unwritten]
    /\ arr_idx = [i \in 0 .. n - 1 |-> Unwritten]
    /\ arr_xyz = [i \in 0 .. n - 1 |-> <<Unwritten, Unwritten, Unwritten>>]
    /\ writes = [i \in 0 .. n - 1 |-> 0]
    /\ smem = [i \in 0 .. warp_size |-> Unwritten]
    /\ prog = [w \in 0 .. warp_size - 1 |-> 0]
    /\ my_val = [w \in 0 .. warp_size - 1 |-> [l \in 0 .. warp_size - 1 |-> 0]]
    /\ sum_of_chunk_sofar = 0
    /\ tier = 0
    /\ solutions = [i \in 0 .. n - 1 |-> <<>>]

PsumNext ==
    \/ fused_prefix_sum_copy
    \/ \E w \in 0 .. warp_size - 1 : PrefixSumWarp(w)
    \/ ShiftOffsets

SpecPsum == PsumInit /\ [][PsumNext]_vars


(* ---------------------------------------------------------------------- *)
(* The ranking on its own: the state at line 745 for one point, with any   *)
(* first row of D over the keys below and the other rows its rotations, H  *)
(* from one group to the two rounds of 2 * block_size.                     *)
SortKeys == {0, 1, BigExp}

SortInit ==
    /\ n = 1
    /\ H \in ScanHubCounts
    /\ k = 1
    /\ queries = <<0>>
    /\ q = 1
    /\ points = [i \in 0 .. 0 |-> <<0, 0, 0>>]
    /\ pc = "BucketSort"
    /\ buffers = cudaFree(cudaMalloc(NoBuffers, IndexBuffers),
                          {"distances", "d_psum_placeholder"})
    /\ batch_id = 1
    /\ launched = LaunchedBatches(1) \o <<"fused_prefix_sum_copy", "BucketSort">>
    /\ done = {0}
    /\ abort = "none"
    /\ dH = [h \in 0 .. H - 1 |-> 0]
    /\ distances = [c \in 0 .. H * batch_size - 1 |->
                      IF c % batch_size = 0 THEN 0 ELSE Unwritten]
    /\ dH_assignments = [i \in 0 .. 0 |-> 0]
    /\ dH_psum = [h \in 0 .. H |-> IF h = 0 THEN 0 ELSE 1]
    /\ dH_psum_copy = [h \in 0 .. H |-> 1]
    /\ d_psum_placeholder = [h \in 0 .. H |-> IF h = H THEN 0 ELSE 1]
    /\ \E first \in [0 .. H - 1 -> SortKeys] :
          D = [c \in 0 .. H * H - 1 |-> first[((c \div H) + (c % H)) % H]]
    /\ iD = [c \in 0 .. H * H - 1 |-> Unwritten]
    /\ dD = [c \in 0 .. H * H - 1 |-> Unwritten]
    /\ arr_idx = [i \in 0 .. 0 |-> 0]
    /\ arr_xyz = [i \in 0 .. 0 |-> <<0, 0, 0>>]
    /\ writes = [i \in 0 .. 0 |-> 1]
    /\ smem = [i \in 0 .. warp_size |-> Unwritten]
    /\ prog = [w \in 0 .. warp_size - 1 |-> 0]
    /\ my_val = [w \in 0 .. warp_size - 1 |-> [l \in 0 .. warp_size - 1 |-> 0]]
    /\ sum_of_chunk_sofar = 0
    /\ tier = 0
    /\ solutions = [i \in 0 .. 0 |-> <<>>]

SortNext == fused_transform_sort_D

SpecSort == SortInit /\ [][SortNext]_vars


(* ====================================================================== *)
(* fused_transform_sort_D (lines 429-536) warp by warp: the block of one  *)
(* hub, its warps interleaved as the __syncthreads of lines 486, 511 and  *)
(* 528 allow.  The blocks of the grid share nothing (smem is per block,   *)
(* each block writes its own row), so one block is followed: hub_id = 0.  *)
(* The registers dist[r], hub[r] of the thread of global lane g are       *)
(* my_val[g]; prog[w] counts the segments warp w has completed.           *)
(* ====================================================================== *)
(* float( hub ) and int( smem[..] ): a float holds integers exactly up to *)
(* 2^24 and every second one up to 2^25.                                  *)
float(x) == IF x <= Pow2(24) THEN x ELSE x - (x % 2)
int(f) == f

(* ROUNDS = (H + block_size - 1) / block_size cells per thread. *)
ROUNDS(hubs) == CEIL_DIV(hubs, block_size)

(* The <<coop, stride>> of the sub-stages in the order of lines 474-477.  *)
RECURSIVE SubstagesFrom(_, _, _)
SubstagesFrom(coop, stride, hubs) ==
    IF coop > hubs THEN <<>>
    ELSE IF stride < warp_size THEN SubstagesFrom(2 * coop, coop, hubs)
    ELSE <<<<coop, stride>>>> \o SubstagesFrom(coop, stride \div 2, hubs)

Substages(hubs) == SubstagesFrom(2 * warp_size, warp_size, hubs)

(* The warps that pass the guard of line 447, and the global lanes of the *)
(* threads of warp w: all of them, and those of round r.                  *)
SortWarps(hubs) == {w \in 0 .. block_size \div warp_size - 1 : w * warp_size < hubs}
LanesOf(w, hubs) == {g \in 0 .. hubs - 1 : (g % block_size) \div warp_size = w}
LanesOfRound(w, r) == {r * block_size + w * warp_size + l : l \in 0 .. warp_size - 1}

(* The segments of a warp's run: 0 loads the cells and sorts the warp's   *)
(* runs (lines 454-471); then per sub-stage one segment that writes the   *)
(* registers to smem (lines 479-484) and one per round that reads the     *)
(* partner (lines 488-510); the last one writes the row (lines 530-534).  *)
LastSegment(hubs) == Len(Substages(hubs)) * (1 + ROUNDS(hubs)) + 1
SubstageOf(seg, hubs) == (seg - 1) \div (1 + ROUNDS(hubs)) + 1
PhaseOf(seg, hubs) == (seg - 1) % (1 + ROUNDS(hubs))

(* The segments that begin after a __syncthreads: every read (line 486    *)
(* before round 0, line 511 before the later rounds), every write to smem *)
(* but the first (line 511 of the sub-stage before), and the write of the *)
(* row (line 528).  Without line 511 only the reads of round 0 do.        *)
SyncBefore_Line486Only(seg, hubs) ==
    seg \in 1 .. LastSegment(hubs) - 1 /\ PhaseOf(seg, hubs) = 1

SyncBefore(seg, hubs) == seg >= 2

(* __syncthreads: every warp of the block has completed segments < seg. *)
SortBarrierOpen(seg) == \A v \in SortWarps(H) : prog[v] >= seg

(* The keys of the row: with two cells per thread, two keys. *)
MergeKeys(hubs) == IF hubs > block_size THEN {0, 1} ELSE SortKeys

MergeInit ==
    /\ n = 1
    /\ H \in ScanHubCounts
    /\ k = 1
    /\ queries = <<0>>
    /\ q = 1
    /\ points = [i \in 0 .. 0 |-> <<0, 0, 0>>]
    /\ pc = "fused_transform_sort_D"
    /\ buffers = cudaFree(cudaMalloc(NoBuffers, IndexBuffers),
                          {"distances", "d_psum_placeholder", "dH_psum_copy"})
    /\ batch_id = 1
    /\ launched = LaunchedBatches(1)
                    \o <<"fused_prefix_sum_copy", "BucketSort", "fused_transform_sort_D">>
    /\ done = {0}
    /\ abort = "none"
    /\ dH = [h \in 0 .. H - 1 |-> 0]
    /\ distances = [c \in 0 .. H * batch_size - 1 |->
                      IF c % batch_size = 0 THEN 0 ELSE Unwritten]
    /\ dH_assignments = [i \in 0 .. 0 |-> 0]
    /\ dH_psum = [h \in 0 .. H |-> IF h = 0 THEN 0 ELSE 1]
    /\ dH_psum_copy = [h \in 0 .. H |-> 1]
    /\ d_psum_placeholder = [h \in 0 .. H |-> IF h = H THEN 0 ELSE 1]
    /\ \E first \in [0 .. H - 1 -> MergeKeys(H)] :
          D = [c \in 0 .. H * H - 1 |-> first[((c \div H) + (c % H)) % H]]
    /\ iD = [c \in 0 .. H * H - 1 |-> Unwritten]
    /\ dD = [c \in 0 .. H * H - 1 |-> Unwritten]
    /\ arr_idx = [i \in 0 .. 0 |-> 0]
    /\ arr_xyz = [i \in 0 .. 0 |-> <<0, 0, 0>>]
    /\ writes = [i \in 0 .. 0 |-> 1]
    /\ \E g \in UninitValues : smem = [i \in 0 .. 2 * H - 1 |-> g]
    /\ prog = [w \in SortWarps(H) |-> 0]
    /\ my_val = [g \in 0 .. H - 1 |-> <<Unwritten, Unwritten>>]
    /\ sum_of_chunk_sofar = 0
    /\ tier = 0
    /\ solutions = [i \in 0 .. 0 |-> <<>>]

(* The warp's own lanes of row `to`, the other lanes of row `from`. *)
OwnLanes(w, to, from) ==
    Registers([g \in DOMAIN from |-> IF g \in LanesOf(w, H) THEN to[g] ELSE from[g]])

(* Lines 454-471: the cells of row hub_id = 0, sorted within the warp. *)
SortLoad(w) ==
    LET cells == OwnLanes(w, [g \in 0 .. H - 1 |-> <<D[g], g>>], my_val)
    IN  /\ my_val' = OwnLanes(w, bitonic_sort(cells,
                                    [g \in 0 .. H - 1 |-> InitialRunAscending(g)]),
                              my_val)
        /\ UNCHANGED <<smem, iD, dD>>

(* Lines 479-484: the registers of the warp go to smem. *)
SortWrite(w) ==
    /\ smem' = [i \in DOMAIN smem |->
                  IF i < H /\ i \in LanesOf(w, H) THEN my_val[i][1]
                  ELSE IF i >= H /\ (i - H) \in LanesOf(w, H) THEN float(my_val[i - H][2])
                  ELSE smem[i]]
    /\ UNCHANGED <<my_val, iD, dD>>

(* Lines 488-510 for round r, and after the last round of the last stride *)
(* of a coop the sort within the warp of lines 516-524.                   *)
SortRead(w, r, coop, stride) ==
    LET merged == Registers([g \in DOMAIN my_val |->
                     IF g \in LanesOfRound(w, r)
                     THEN LET paired_thread == Xor(g, stride)
                              paired_dist == smem[paired_thread]
                              paired_hub == int(smem[paired_thread + H])
                          IN  IF TakesPartner(g, paired_thread, coop,
                                              paired_dist, my_val[g][1])
                              THEN <<paired_dist, paired_hub>>
                              ELSE my_val[g]
                     ELSE my_val[g]])
    IN  /\ my_val' = IF r = ROUNDS(H) - 1 /\ stride = warp_size
                     THEN OwnLanes(w, bitonic_sort(merged,
                                        [g \in 0 .. H - 1 |-> AscendingAt(coop, g)]),
                                   merged)
                     ELSE merged
        /\ UNCHANGED <<smem, iD, dD>>

(* Lines 530-534: the warp writes its cells of row hub_id = 0. *)
SortWriteOut(w) ==
    /\ iD' = [c \in DOMAIN iD |-> IF c \in LanesOf(w, H) THEN my_val[c][2] ELSE iD[c]]
    /\ dD' = [c \in DOMAIN dD |-> IF c \in LanesOf(w, H) THEN my_val[c][1] ELSE dD[c]]
    /\ UNCHANGED <<my_val, smem>>

(* One warp runs its next segment. *)
SortWarp(w) ==
    /\ pc = "fused_transform_sort_D"
    /\ w \in SortWarps(H)
    /\ prog[w] <= LastSegment(H)
    /\ SyncBefore(prog[w], H) => SortBarrierOpen(prog[w])
    /\ IF prog[w] = 0 THEN SortLoad(w)
       ELSE IF prog[w] = LastSegment(H) THEN SortWriteOut(w)
       ELSE IF PhaseOf(prog[w], H) = 0 THEN SortWrite(w)
       ELSE SortRead(w, PhaseOf(prog[w], H) - 1,
                     Substages(H)[SubstageOf(prog[w], H)][1],
                     Substages(H)[SubstageOf(prog[w], H)][2])
    /\ prog' = [prog EXCEPT ![w] = @ + 1]
    /\ UNCHANGED <<inputs, buffers, host, hubstate, psums, D, buckets,
                   sum_of_chunk_sofar, query>>

(* Every warp has returned: line 747, cudaFree(D). *)
SortReturn ==
    /\ pc = "fused_transform_sort_D"
    /\ \A w \in SortWarps(H) : prog[w] = LastSegment(H) + 1
    /\ pc' = "dispatch"
    /\ buffers' = cudaFree(buffers, {"D"})
    /\ UNCHANGED <<inputs, batch_id, launched, done, abort, hubstate, psums,
                   matrices, buckets, scan, query>>

MergeNext ==
    \/ \E w \in 0 .. block_size \div warp_size - 1 : SortWarp(w)
    \/ SortReturn

SpecMerge == MergeInit /\ [][MergeNext]_vars


(* ---------------------------------------------------------------------- *)
(* The row at the start of sub-stage s (1-based; Len + 1: after the last) *)
(* as the kernel's arithmetic gives it with every read seeing the pair    *)
(* its partner held at the start of the sub-stage.                        *)
(* ---------------------------------------------------------------------- *)
RECURSIVE RowAtStart(_)
RowAtStart(s) ==
    IF s = 1
    THEN bitonic_sort(Registers([g \in 0 .. H - 1 |-> <<D[g], g>>]),
                      [g \in 0 .. H - 1 |-> InitialRunAscending(g)])
    ELSE LET coop == Substages(H)[s - 1][1]
             stride == Substages(H)[s - 1][2]
             merged == MergeSubStage(RowAtStart(s - 1), coop, stride)
         IN  IF stride = warp_size
             THEN bitonic_sort(merged, [g \in 0 .. H - 1 |-> AscendingAt(coop, g)])
             ELSE merged

(* Warp w is about to read round r of sub-stage s. *)
ReadsNext(w, s, r) ==
    /\ pc = "fused_transform_sort_D"
    /\ prog[w] \in 1 .. LastSegment(H) - 1
    /\ SubstageOf(prog[w], H) = s
    /\ PhaseOf(prog[w], H) = r + 1
    /\ SyncBefore(prog[w], H) => SortBarrierOpen(prog[w])

(* The pair held in smem for global lane g. *)
Staged(g) == <<smem[g], int(smem[g + H])>>

(* C23: in every merge sub-stage of fused_transform_sort_D, under every   *)
(* interleaving of the warps, a thread that is about to read finds in     *)
(* smem exactly the pair its partner held at the start of that sub-stage  *)
(* (the write is behind a barrier, the overwrite for the next sub-stage   *)
(* is beyond one), and the row the block writes is the row of the         *)
(* sub-stages applied one after the other.                                *)
C23_PartnerPairRead ==
    /\ \A w \in SortWarps(H) : \A r \in 0 .. ROUNDS(H) - 1 :
          \A s \in 1 .. Len(Substages(H)) :
             ReadsNext(w, s, r) =>
                \A g \in LanesOfRound(w, r) :
                   Staged(Xor(g, Substages(H)[s][2]))
                      = RowAtStart(s)[Xor(g, Substages(H)[s][2])]
    /\ (pc = "dispatch" /\ launched[Len(launched)] = "fused_transform_sort_D")
          => \A g \in 0 .. H - 1 :
                <<dD[g], iD[g]>> = RowAtStart(Len(Substages(H)) + 1)[g]

(* A thread in a later sub-stage is about to take its partner's pair, and *)
(* the partner has already replaced that pair in its registers.           *)
C23_Witness ==
    \E w \in SortWarps(H) : \E r \in 0 .. ROUNDS(H) - 1 :
       \E s \in 2 .. Len(Substages(H)) :
          /\ ReadsNext(w, s, r)
          /\ \E g \in LanesOfRound(w, r) :
                LET paired_thread == Xor(g, Substages(H)[s][2])
                IN  /\ TakesPartner(g, paired_thread, Substages(H)[s][1],
                                    smem[paired_thread], my_val[g][1])
                    /\ my_val[paired_thread] # Staged(paired_thread)


(* ====================================================================== *)
(* reassignPoints (lines 90-143), launched on the state the batch loop    *)
(* leaves: the launch of line 724 with its grid of blocks of block_size   *)
(* workers.  The kernel reads distances[h * n + idx], so it is given the  *)
(* table of all n points with stride n.                                   *)
(* ====================================================================== *)
(* blockIdx.x of worker idx, and the __shared__ array of a block. *)
blockIdx(idx) == idx \div block_size
initial_counts(b) == smem[b]

(* What an uninitialised counter may hold: below every k, or at least k. *)
UninitCounts(nn) == {0, nn}

(* The blocks of a grid that covers the nn points, and the workers of the  *)
(* grid that have something to do: a counter to copy or a point to move.   *)
ReassignBlocks(nn) == CEIL_DIV(nn, block_size)
ReassignWorkers(nn, hh) == 0 .. (IF nn > hh THEN nn ELSE hh) - 1

ReassignInit ==
    /\ \/ /\ n \in 2 .. block_size
          /\ points \in [0 .. n - 1 -> Axis]
          /\ H \in {warp_size, warp_size + 1}
          /\ k \in 1 .. n
       \/ /\ n = block_size + 1
          /\ points \in [0 .. n - 1 -> Corners]
          /\ H = warp_size
          /\ k \in 1 .. n - 1
       \/ /\ n = warp_size
          /\ points = [i \in 0 .. n - 1 |-> <<i, 0, 0>>]
          /\ H = block_size
          /\ k = 1
    /\ queries = Identity(n)
    /\ q = n
    /\ pc = "reassignPoints"
    /\ buffers = cudaMalloc(NoBuffers, IndexBuffers)
    /\ batch_id = CEIL_DIV(n, batch_size)
    /\ launched = LaunchedBatches(CEIL_DIV(n, batch_size))
    /\ done = {}
    /\ abort = "none"
    /\ dH = [h \in 0 .. H - 1 |-> Selected_Hub(h, n)]
    /\ distances = [c \in 0 .. H * n - 1 |->
                      sqrt_l2dist(points[c % n], points[dH[c \div n]])]
    /\ dH_assignments = [p \in 0 .. n - 1 |-> assigned_H(points[p])]
    /\ dH_psum = [h \in 0 .. H |->
                    Cardinality({p \in 0 .. n - 1 : dH_assignments[p] = h})]
    /\ dH_psum_copy = [h \in 0 .. H |-> 0]
    /\ d_psum_placeholder = [h \in 0 .. H |-> 0]
    /\ D = [c \in 0 .. H * H - 1 |-> BigExp]
    /\ iD = [c \in 0 .. H * H - 1 |-> Unwritten]
    /\ dD = [c \in 0 .. H * H - 1 |-> Unwritten]
    /\ arr_idx = [i \in 0 .. n - 1 |-> Unwritten]
    /\ arr_xyz = [i \in 0 .. n - 1 |-> <<Unwritten, Unwritten, Unwritten>>]
    /\ writes = [i \in 0 .. n - 1 |-> 0]
    /\ smem \in [0 .. ReassignBlocks(n) - 1 -> [0 .. H - 1 -> UninitCounts(n)]]
    /\ prog = [idx \in ReassignWorkers(n, H) |-> IF idx < H THEN 0 ELSE 1]
    /\ my_val = [w \in 0 .. warp_size - 1 |-> [l \in 0 .. warp_size - 1 |-> 0]]
    /\ sum_of_chunk_sofar = 0
    /\ tier = 0
    /\ solutions = [i \in 0 .. n - 1 |-> <<>>]

(* Lines 96-97: the asserts every worker makes first. *)
ReassignAsserts == k < n /\ H < block_size

(* Lines 96-105: the workers with idx < H copy a counter each; the other  *)
(* workers have nothing to do before the barrier.                          *)
LoadCounts(idx) ==
    /\ pc = "reassignPoints"
    /\ idx \in DOMAIN prog
    /\ prog[idx] = 0
    /\ IF ReassignAsserts
       THEN /\ smem' = [smem EXCEPT ![blockIdx(idx)][idx] = dH_psum[idx]]
            /\ prog' = [prog EXCEPT ![idx] = 1]
            /\ UNCHANGED <<pc, abort>>
       ELSE /\ abort' = "reassignPoints"
            /\ pc' = "aborted"
            /\ UNCHANGED <<smem, prog>>
    /\ UNCHANGED <<inputs, buffers, batch_id, launched, done, hubstate, psums,
                   matrices, buckets, my_val, sum_of_chunk_sofar, query>>

(* __syncthreads of line 106: every worker of the block has arrived. *)
BlockSynced(b) ==
    \A idx \in DOMAIN prog : blockIdx(idx) = b => prog[idx] >= 1

(* The loop of lines 116-125 of one worker: <<new_hub, minimal_dist>>      *)
(* after hubs 0 .. h-1, against the block's initial_counts.                *)
RECURSIVE AlternateHubLoop(_, _, _)
AlternateHubLoop(idx, counts, h) ==
    IF h = 0 THEN <<H, FLT_MAX>>
    ELSE LET prev == AlternateHubLoop(idx, counts, h - 1)
             next_distance == distances[(h - 1) * n + idx]
         IN  IF counts[h - 1] >= k /\ next_distance < prev[2]
             THEN <<h - 1, next_distance>>
             ELSE prev

(* The asserts of lines 119 and 127-131. *)
MoveAsserts(idx, counts, new_hub, minimal_dist) ==
    /\ \A h \in 0 .. H - 1 : distances[h * n + idx] < FLT_MAX
    /\ new_hub # dH_assignments[idx]
    /\ new_hub < H
    /\ minimal_dist < FLT_MAX
    /\ counts[new_hub] >= k
    /\ distances[new_hub * n + idx] >= distances[dH_assignments[idx] * n + idx]

(* Lines 108-136: worker idx < n moves its point if its hub is below k in  *)
(* the block's initial_counts.  A worker with idx >= H has nothing to do   *)
(* after this.                                                             *)
MovePoint(idx) ==
    /\ pc = "reassignPoints"
    /\ idx \in DOMAIN prog
    /\ prog[idx] = 1
    /\ BlockSynced(blockIdx(idx))
    /\ LET counts == initial_counts(blockIdx(idx))
           current_hub == dH_assignments[idx]
           found == AlternateHubLoop(idx, counts, H)
       IN  IF idx < n /\ counts[current_hub] < k
           THEN IF MoveAsserts(idx, counts, found[1], found[2])
                THEN /\ dH_assignments' = [dH_assignments EXCEPT ![idx] = found[1]]
                     /\ dH_psum' = [dH_psum EXCEPT ![found[1]] = @ + 1]
                     /\ prog' = [prog EXCEPT ![idx] = IF idx < H THEN 2 ELSE 3]
                     /\ UNCHANGED <<pc, abort>>
                ELSE /\ abort' = "reassignPoints"
                     /\ pc' = "aborted"
                     /\ UNCHANGED <<dH_assignments, dH_psum, prog>>
           ELSE /\ prog' = [prog EXCEPT ![idx] = IF idx < H THEN 2 ELSE 3]
                /\ UNCHANGED <<pc, abort, dH_assignments, dH_psum>>
    /\ UNCHANGED <<inputs, buffers, batch_id, launched, done, dH, distances,
                   dH_psum_copy, d_psum_placeholder, matrices, buckets, smem,
                   my_val, sum_of_chunk_sofar, query>>

(* Lines 139-142: worker idx < H resets the counter of a hub below k. *)
ResetCount(idx) ==
    /\ pc = "reassignPoints"
    /\ idx \in DOMAIN prog
    /\ prog[idx] = 2
    /\ dH_psum' = IF initial_counts(blockIdx(idx))[idx] < k
                  THEN [dH_psum EXCEPT ![idx] = 0]
                  ELSE dH_psum
    /\ prog' = [prog EXCEPT ![idx] = 3]
    /\ UNCHANGED <<inputs, buffers, pc, batch_id, launched, done, abort, dH,
                   distances, dH_psum_copy, d_psum_placeholder, dH_assignments,
                   matrices, buckets, smem, my_val, sum_of_chunk_sofar, query>>

(* The kernel has completed: every worker has returned. *)
ReassignDone ==
    /\ pc = "reassignPoints"
    /\ \A idx \in DOMAIN prog : prog[idx] = 3
    /\ pc' = "done"
    /\ launched' = Append(launched, "reassignPoints")
    /\ UNCHANGED <<inputs, buffers, batch_id, done, abort, hubstate, psums,
                   matrices, buckets, scan, query>>

ReassignNext ==
    \/ \E idx \in 0 .. block_size : LoadCounts(idx)
    \/ \E idx \in 0 .. block_size : MovePoint(idx)
    \/ \E idx \in 0 .. block_size : ResetCount(idx)
    \/ ReassignDone

SpecReassign == ReassignInit /\ [][ReassignNext]_vars


(* ====================================================================== *)
(* Properties                                                             *)
(* ====================================================================== *)
Points_num == 0 .. n - 1

(* The population of hub h: the points the assignment table gives it. *)
Population(h) == Cardinality({p \in Points_num : dH_assignments[p] = h})

(* The host has left the batch loop: assignment, counters and D are final. *)
IndexBuilt ==
    pc \in {"fused_prefix_sum_copy", "prefix_sum_running", "BucketSort",
            "dispatch", "Query", "done"}

(* Every BucketSort worker has finished. *)
Bucketed == (pc = "BucketSort" /\ done = Points_num) \/ pc \in {"dispatch", "Query", "done"}

(* The Query kernel was launched. *)
Querying == pc \in {"Query", "done"}

(* Points strictly closer to qp than d, and points at most d away. *)
Closer(qp, d) == {p \in Points_num : l2dist(points[qp], points[p]) < d}
Within(qp, d) == {p \in Points_num : l2dist(points[qp], points[p]) <= d}

(* The row of qp is the answer of an exhaustive scan, up to ties: k pairs, *)
(* the r-th distance is the r-th smallest of all n distances, every pair   *)
(* names a point at that distance, no point twice, and no point strictly   *)
(* closer than the k-th returned one is left out.                          *)
ExactRow(qp) ==
    LET row == solutions[qp]
        ids == {row[r][2] : r \in 1 .. Len(row)}
    IN  /\ Len(row) = k
        /\ \A r \in 1 .. k :
              /\ row[r][2] \in Points_num
              /\ l2dist(points[qp], points[row[r][2]]) = row[r][1]
              /\ Cardinality(Closer(qp, row[r][1])) < r
              /\ Cardinality(Within(qp, row[r][1])) >= r
        /\ Cardinality(ids) = k
        /\ Closer(qp, row[k][1]) \subseteq ids

(* C1: for k <= n, every row the Query kernel has written holds the k      *)
(* nearest of all n points as an exhaustive scan finds them, up to ties in *)
(* distance; early termination omits no point strictly closer than the     *)
(* k-th returned one.                                                      *)
C1_Exactness ==
    k <= n => \A qp \in Points_num : solutions[qp] # <<>> => ExactRow(qp)

(* The hub the traversal of query qs stood at when its loop ended. *)
HubAtExit(qs) ==
    LET st == QueryExit(qs)
    IN  iD[dH_assignments[arr_idx[qs]] * H + st.hubs_processed]

(* C1 witness: a finished run with k <= n in which some query stopped early *)
(* in front of a bucket that holds points.                                   *)
C1_Witness ==
    /\ pc = "done"
    /\ k <= n
    /\ \E qs \in Points_num :
          LET st == QueryExit(qs)
          IN  /\ st.hubs_processed \in 1 .. H - 1
              /\ dH_psum[HubAtExit(qs)] < dH_psum[HubAtExit(qs) + 1]


(* ---------------------------------------------------------------------- *)
(* C2: after fused_prefix_sum_copy and the host's shift, offset[0] = 0,    *)
(* offset[H] = n, the offsets are non-decreasing and offset[i+1] -         *)
(* offset[i] is the population of hub i, for every H the scan accepts.     *)
C2_OffsetTable ==
    pc = "BucketSort" =>
        /\ dH_psum[0] = 0
        /\ dH_psum[H] = n
        /\ \A i \in 0 .. H - 1 :
              /\ dH_psum[i] <= dH_psum[i + 1]
              /\ dH_psum[i + 1] - dH_psum[i] = Population(i)

(* ---------------------------------------------------------------------- *)
(* C3: when all BucketSort workers have finished, arr_idx is a permutation *)
(* of [0, n): every slot was written exactly once and every point is in    *)
(* some slot; and the segment [offset[i], offset[i+1]) of every hub i      *)
(* holds exactly the points assigned to i, with their coordinates.  While  *)
(* workers run, no slot is written twice.                                  *)
C3_BucketPermutation ==
    /\ pc = "BucketSort" => \A loc \in Points_num : writes[loc] <= 1
    /\ Bucketed =>
          /\ \A loc \in Points_num : writes[loc] = 1
          /\ {arr_idx[loc] : loc \in Points_num} = Points_num
          /\ \A loc \in Points_num : arr_xyz[loc] = points[arr_idx[loc]]
          /\ \A i \in 0 .. H - 1 :
                {arr_idx[loc] : loc \in {l \in Points_num :
                                           dH_psum[i] <= l /\ l < dH_psum[i + 1]}}
                    = {p \in Points_num : dH_assignments[p] = i}

(* C3 witness: all workers have finished and two points of one hub sit in  *)
(* its segment in the reverse of their identifier order, next to another   *)
(* hub's segment.                                                          *)
C3_Witness ==
    /\ pc = "BucketSort"
    /\ done = Points_num
    /\ \E loc \in 0 .. n - 2 :
          /\ arr_idx[loc] > arr_idx[loc + 1]
          /\ dH_assignments[arr_idx[loc]] = dH_assignments[arr_idx[loc + 1]]
    /\ \E p, r \in Points_num : dH_assignments[p] # dH_assignments[r]

(* ---------------------------------------------------------------------- *)
(* C4: every row i that fused_transform_sort_D writes has sorted_hub_ids[i] *)
(* a permutation of [0, H), sorted_hub_dist[i] non-decreasing, and          *)
(* sorted_hub_dist[i][r] = D[i][sorted_hub_ids[i][r]] at every rank r.      *)
C4_RankedRows ==
    pc = "dispatch" =>
        \A i \in 0 .. H - 1 :
            /\ {iD[H * i + r] : r \in 0 .. H - 1} = 0 .. H - 1
            /\ \A r \in 0 .. H - 2 : dD[H * i + r] <= dD[H * i + r + 1]
            /\ \A r \in 0 .. H - 1 : dD[H * i + r] = D[H * i + iD[H * i + r]]

(* C4 witness: a matrix of two rounds per row has been ranked, and a row   *)
(* of it held equal values and a descent across the two rounds.            *)
C4_Witness ==
    /\ pc = "dispatch"
    /\ H = 2 * block_size
    /\ \E i \in 0 .. H - 1 :
          /\ \E a, b \in 0 .. H - 1 : a # b /\ D[H * i + a] = D[H * i + b]
          /\ \E a \in 0 .. block_size - 1, b \in block_size .. H - 1 :
                D[H * i + a] > D[H * i + b]
          /\ iD[H * i] >= block_size

(* ---------------------------------------------------------------------- *)
(* C5: in the index the query stage uses, D[i][j] never exceeds the        *)
(* distance from hub i to a point whose final assignment is hub j; the     *)
(* same holds of the ranked distance dD[i][r] and the hub iD[i][r].        *)
C5_PruningSound ==
    /\ IndexBuilt =>
          \A i, j \in 0 .. H - 1 : \A p \in Points_num :
              dH_assignments[p] = j =>
                  D[H * i + j] <= sqrt_l2dist(points[dH[i]], points[p])
    /\ Querying =>
          \A i, r \in 0 .. H - 1 : \A p \in Points_num :
              dH_assignments[p] = iD[H * i + r] =>
                  dD[H * i + r] <= sqrt_l2dist(points[dH[i]], points[p])

(* C5 witness: the query stage runs on an index built from two batches, in *)
(* which a cell of D is the distance to a point of the first batch.        *)
C5_Witness ==
    /\ pc = "Query"
    /\ n > batch_size
    /\ \E i, j \in 0 .. H - 1 :
          /\ i # j
          /\ D[H * i + j] < BigExp
          /\ \A p \in Points_num :
                (dH_assignments[p] = j
                    /\ D[H * i + j] = sqrt_l2dist(points[dH[i]], points[p]))
                => p < batch_size


(* ---------------------------------------------------------------------- *)
(* C6: for k < n, every hub with population > 0 in the assignment table    *)
(* handed to the prefix-sum, bucketing and query stages has population     *)
(* >= k.                                                                   *)
C6_PopulationAtLeastK ==
    (IndexBuilt /\ k < n) =>
        \A h \in 0 .. H - 1 : Population(h) > 0 => Population(h) >= k

(* ---------------------------------------------------------------------- *)
(* C7: for every k from 1 to the largest tier, the dispatch does not       *)
(* reject the request and runs the collector whose bound is the smallest   *)
(* tier >= k.                                                              *)
Tiers == {WarpQ(c) : c \in 1 .. 5}

SmallestTier(kk) ==
    CHOOSE t \in Tiers : t >= kk /\ \A u \in Tiers : u >= kk => t <= u

Dispatched == pc \in {"Query", "done"} \/ abort = "C_and_Q"

C7_SmallestTierServes ==
    (Dispatched /\ k \in 1 .. LargestTier) =>
        (abort = "none" /\ tier = SmallestTier(k))

(* ---------------------------------------------------------------------- *)
(* C8: when k exceeds the largest tier and the dispatch reports it, no     *)
(* kernel of the pipeline has been launched.                               *)
C8_ErrorBeforeLaunch ==
    (abort = "C_and_Q" /\ k > LargestTier) => launched = <<>>

(* ---------------------------------------------------------------------- *)
(* C9: with H not a power of two, H below the group width, or k >= n, no   *)
(* query result is ever written.                                           *)
Malformed == popc(H) # 1 \/ H < warp_size \/ k >= n

C9_MalformedWritesNothing ==
    Malformed => \A row \in Points_num : solutions[row] = <<>>

(* ---------------------------------------------------------------------- *)
(* C10: when the query stage has finished, row j of the result arrays      *)
(* holds, for each j below num_queries, k pairs in ascending order of      *)
(* distance, measured from the j-th identifier of the query list; no row   *)
(* at or beyond num_queries has been written.                              *)
AnswersQuery(row, qp) ==
    /\ Len(row) = k
    /\ \A r \in 1 .. k - 1 : row[r][1] <= row[r + 1][1]
    /\ \A r \in 1 .. k :
          row[r][2] \in Points_num =>
              row[r][1] = l2dist(points[qp], points[row[r][2]])

C10_AnswersQueryList ==
    pc = "done" =>
        \A row \in Points_num :
            IF row < q THEN AnswersQuery(solutions[row], queries[row + 1])
            ELSE solutions[row] = <<>>

(* ---------------------------------------------------------------------- *)
(* C11: the state the index build ends with is determined by its input,    *)
(* whatever the interleaving of the workers inside a kernel; the order of  *)
(* the points inside a bucket segment apart.  For the offset table that    *)
(* BucketSort is launched with: offset[i] is the number of points whose    *)
(* assignment is below i, in every execution.                              *)
OffsetOf(i) == Cardinality({p \in Points_num : dH_assignments[p] < i})

C11_BuildDetermined ==
    pc = "BucketSort" =>
        /\ dH = [h \in 0 .. H - 1 |-> Selected_Hub(h, n)]
        /\ dH_psum = [i \in 0 .. H |-> OffsetOf(i)]

(* ---------------------------------------------------------------------- *)
(* C12: the kernels are launched in the order of the stages 1 to 7 (hub    *)
(* selection, distance assignment, rebalancing, partitioning, matrix       *)
(* build, ranking, query): no kernel of a later stage precedes a kernel of *)
(* an earlier one.                                                         *)
StageOf(kernel) ==
    CASE kernel = "Randomly_Select_Hubs"   -> 1
      [] kernel = "set_max_float"          -> 1
      [] kernel = "Calculate_Distances"    -> 2
      [] kernel = "reassignPoints"         -> 3
      [] kernel = "fused_prefix_sum_copy"  -> 4
      [] kernel = "BucketSort"             -> 4
      [] kernel = "Construct_D"            -> 5
      [] kernel = "fused_transform_sort_D" -> 6
      [] OTHER                             -> 7

C12_StagesInOrder ==
    \A i, j \in DOMAIN launched :
        i < j => StageOf(launched[i]) <= StageOf(launched[j])

(* C12, amended: the kernels are launched in program order - selection,    *)
(* the initialisation of D, per batch the distance assignment and then the *)
(* matrix build, prefix sum, bucketing, ranking, query - and each is       *)
(* launched only when the kernel before it has completed: the matrix build *)
(* of a batch finds every point of that and the earlier batches counted,   *)
(* bucketing finds the offsets reduced, the ranking finds every slot of    *)
(* the buckets written, the query finds both ranked tables written.        *)
ProgramOrder ==
    LaunchedBatches(batch_number)
        \o <<"fused_prefix_sum_copy", "BucketSort", "fused_transform_sort_D", "Query">>

RECURSIVE CountersSum(_)
CountersSum(h) == IF h = 0 THEN 0 ELSE CountersSum(h - 1) + dH_psum[h - 1]

C12_LaunchedInProgramOrder ==
    /\ Len(launched) <= Len(ProgramOrder)
    /\ launched = SubSeq(ProgramOrder, 1, Len(launched))
    /\ \A i \in DOMAIN launched :
          /\ (launched[i] = "Construct_D" /\ i = Len(launched)) =>
                CountersSum(H) = Min2(n, ((i - 2) \div 2) * batch_size)
          /\ launched[i] = "BucketSort" => dH_psum[H] = n
          /\ launched[i] = "fused_transform_sort_D" =>
                \A loc \in Points_num : writes[loc] = 1
          /\ launched[i] = "Query" =>
                \A c \in 0 .. H * H - 1 : iD[c] # Unwritten /\ dD[c] # Unwritten

(* C12 witness: with two batches, the second distance assignment has been  *)
(* launched after the first matrix build, and the query is running.        *)
C12_Witness ==
    /\ pc = "Query"
    /\ n > batch_size
    /\ \E i \in DOMAIN launched :
          /\ launched[i] = "Construct_D"
          /\ launched[i + 1] = "Calculate_Distances"

(* The device buffers each kernel is launched with (lines 707-780). *)
KernelArgs(kernel) ==
    CASE kernel = "Randomly_Select_Hubs"   -> {"dH"}
      [] kernel = "set_max_float"          -> {"D"}
      [] kernel = "Calculate_Distances"    -> {"dH", "distances", "dH_psum", "dH_assignments"}
      [] kernel = "Construct_D"            -> {"distances", "dH_assignments", "D"}
      [] kernel = "fused_prefix_sum_copy"  -> {"dH_psum", "dH_psum_copy"}
      [] kernel = "BucketSort"             -> {"arr_x", "arr_y", "arr_z", "arr_idx",
                                               "dH_assignments", "dH_psum_copy"}
      [] kernel = "fused_transform_sort_D" -> {"D", "iD", "dD"}
      [] kernel = "Query"                  -> {"dH", "arr_idx", "arr_x", "arr_y", "arr_z",
                                               "iD", "dD", "dH_psum", "dH_assignments",
                                               "d_hubsScanned", "d_pointsScanned"}
      [] OTHER                             -> {}

Live(b) == buffers[b].malloc > buffers[b].free

Ranked == \A c \in 0 .. H * H - 1 : iD[c] # Unwritten /\ dD[c] # Unwritten

(* The kernel whose workers are running in the current state. *)
RunningKernel == IF pc = "prefix_sum_running" THEN "fused_prefix_sum_copy" ELSE pc

NeverTwice == \A b \in DOMAIN buffers : buffers[b].free <= buffers[b].malloc
NoLeak == pc = "done" => \A b \in DOMAIN buffers : buffers[b].free = buffers[b].malloc
NoUseAfterFree == \A b \in KernelArgs(RunningKernel) : Live(b)
DistancesAfterRanking == buffers["distances"].free > 0 => Ranked

(* C13: every buffer C_and_Q allocates is released exactly once: never more
   often than it was allocated (NeverTwice), and as often as it was allocated
   once C_and_Q has returned (NoLeak); the running kernel's buffers are live
   (NoUseAfterFree); and the raw distance table is released only once the
   ranked hub tables iD and dD are written (DistancesAfterRanking). *)
C13_BufferLifecycle ==
    /\ NeverTwice
    /\ NoLeak
    /\ NoUseAfterFree
    /\ DistancesAfterRanking


(* ---------------------------------------------------------------------- *)
(* The inequality of the early-termination rule, on exact reals:           *)
(*     sqrt(worst) > lower_bound - own,                                    *)
(* where worst is the collector's worst retained squared distance (or      *)
(* FLT_MAX while the collector is not full), lower_bound a cell of dD (a   *)
(* square root held by its square, or the empty hub's sentinel) and own    *)
(* the query's distance to its own hub (held by its square).  With         *)
(* a = sqrt(worst), b = own, c = lower_bound: a + b > c.  Squares are      *)
(* below 0x7f000000, so FLT_MAX as worst exceeds every finite bound and    *)
(* the sentinel as bound is out of every collector's reach.                *)
(* For a, b, c >= 0: a + b > c iff 2ab > c^2 - a^2 - b^2, iff that        *)
(* difference is negative or 4 a^2 b^2 exceeds its square.                 *)
WithinReach(worst, lower_bound, own) ==
    /\ lower_bound < BigExp
    /\ \/ worst = FLT_MAX
       \/ lower_bound < worst + own
       \/ 4 * worst * own > (lower_bound - worst - own) * (lower_bound - worst - own)

(* What query qs brought to its loop: its distance to its own hub. *)
OwnHubDistance(qs) ==
    sqrt_l2dist(points[arr_idx[qs]], points[dH[dH_assignments[arr_idx[qs]]]])

(* C14 as the code has it: the body of the traversal's loop runs only when  *)
(* hubs remain and sqrt(worst retained distance) > lower bound - own-hub   *)
(* distance held at the test, and the traversal stops at the first test at *)
(* which no hub remains or that inequality does not hold.                  *)
C14_ContinuesWhileWithinReach ==
    Querying =>
        \A qs \in done :
            LET st == QueryExit(qs)
            IN  /\ \A i \in DOMAIN st.tests :
                      WithinReach(st.tests[i][1], st.tests[i][2], OwnHubDistance(qs))
                /\ st.hubs_processed <= H
                /\ st.hubs_processed < H =>
                      ~WithinReach(warpKTop(st.heap), st.dist_to_this_hub,
                                   OwnHubDistance(qs))

(* C14 as stated: the traversal stops once the inequality holds, and goes  *)
(* on while it does not hold and hubs remain.                              *)
C14_StopsOnceWithinReach ==
    Querying =>
        \A qs \in done :
            LET st == QueryExit(qs)
            IN  /\ \A i \in DOMAIN st.tests :
                      ~WithinReach(st.tests[i][1], st.tests[i][2], OwnHubDistance(qs))
                /\ st.hubs_processed < H =>
                      WithinReach(warpKTop(st.heap), st.dist_to_this_hub,
                                  OwnHubDistance(qs))

(* C14 witness: a finished run in which one traversal stopped with hubs   *)
(* left, in front of a bucket that holds points, and one traversal went on *)
(* with a full collector past a test whose lower bound was positive.       *)
C14_Witness ==
    /\ pc = "done"
    /\ \E qs \in Points_num :
          LET st == QueryExit(qs)
          IN  /\ st.hubs_processed \in 1 .. H - 1
              /\ st.dist_to_this_hub \in 1 .. BigExp - 1
    /\ \E qs \in Points_num :
          LET st == QueryExit(qs)
          IN  \E i \in DOMAIN st.tests :
                 st.tests[i][1] # FLT_MAX /\ st.tests[i][2] > 0


(* ---------------------------------------------------------------------- *)
EmptyHubs == {j \in 0 .. H - 1 : Population(j) = 0}

EmptyCellsHoldMax ==
    IndexBuilt => \A i \in 0 .. H - 1 : \A j \in EmptyHubs : D[H * i + j] = FLT_MAX

EmptyCellsRankLast ==
    (IndexBuilt /\ Ranked) =>
        \A i \in 0 .. H - 1 : \A a, b \in 0 .. H - 1 :
            (iD[H * i + a] \in EmptyHubs /\ iD[H * i + b] \notin EmptyHubs) => b < a

(* C15: after all batches of Construct_D every cell D[i][j] of a hub j     *)
(* without points holds the value set_max_float wrote, the maximal         *)
(* representable distance, and in every ranked row the cells of such hubs  *)
(* come behind the cells of every hub that has points.                     *)
C15_EmptyHubSentinel == EmptyCellsHoldMax /\ EmptyCellsRankLast


(* ---------------------------------------------------------------------- *)
(* The points of the whole cloud that hub j owns. *)
OwnedBy(j) == {p \in Points_num : dH_assignments[p] = j}

(* The batch point p was handled in. *)
BatchOf(p) == p \div batch_size

(* C16: once Calculate_Distances and Construct_D have run for all batches, *)
(* D[i][j] is the least distance from hub i to a point of the whole cloud  *)
(* that hub j owns, for all hubs i, j with j owning a point, whatever the  *)
(* number of batches the n points fall into.                               *)
C16_ClosestOwnedPoint ==
    IndexBuilt =>
        \A i, j \in 0 .. H - 1 :
            OwnedBy(j) # {} =>
                /\ \E p \in OwnedBy(j) :
                      D[H * i + j] = sqrt_l2dist(points[p], points[dH[i]])
                /\ \A p \in OwnedBy(j) :
                      D[H * i + j] <= sqrt_l2dist(points[p], points[dH[i]])

(* C16 witness: two batches, and a hub j that owns points of both: seen    *)
(* from some hub i its closest point is in the first batch only, and seen  *)
(* from some hub its two points of one batch are at different distances.   *)
C16_Witness ==
    /\ IndexBuilt
    /\ batch_number > 1
    /\ \E j \in 0 .. H - 1 :
          /\ \E i \in 0 .. H - 1 : \E p \in OwnedBy(j) :
                /\ BatchOf(p) = 0
                /\ \A r \in OwnedBy(j) :
                      BatchOf(r) > 0 => sqrt_l2dist(points[p], points[dH[i]])
                                          < sqrt_l2dist(points[r], points[dH[i]])
                /\ \E r \in OwnedBy(j) : BatchOf(r) > 0
          /\ \E i \in 0 .. H - 1 : \E p, r \in OwnedBy(j) :
                /\ p < r
                /\ BatchOf(p) = BatchOf(r)
                /\ sqrt_l2dist(points[p], points[dH[i]])
                      < sqrt_l2dist(points[r], points[dH[i]])


(* ---------------------------------------------------------------------- *)
(* Every worker of the last batch's Calculate_Distances has finished and   *)
(* the scan has not yet turned the counters into offsets.                  *)
AllAssigned ==
    \/ /\ pc = "Calculate_Distances"
       /\ batch_id = batch_number - 1
       /\ done = BatchWorkers(batch_id)
    \/ pc = "batch" /\ batch_id = batch_number
    \/ pc = "fused_prefix_sum_copy"

HubDistance(p, h) == sqrt_l2dist(points[p], points[dH[h]])

(* The points whose worker has performed its atomicAdd. *)
Counted ==
    IF pc \in {"Calculate_Distances", "batch"}
    THEN {p \in Points_num :
            \/ BatchOf(p) < batch_id
            \/ pc = "Calculate_Distances" /\ BatchOf(p) = batch_id
                                          /\ p % batch_size \in done}
    ELSE IF pc = "fused_prefix_sum_copy" THEN Points_num ELSE {}

(* C17: after Calculate_Distances has run for all batches, every point's   *)
(* assignment is a hub index in [0, H), no hub is closer to the point than *)
(* its assigned hub and no hub of lower index is as close; hub_counts[h]   *)
(* is the number of points assigned to h, and the counters sum to n.  In   *)
(* whatever order the workers perform their atomicAdd, the counters hold   *)
(* the assignments of the workers that have performed it.                  *)
C17_NearestHubAndCounts ==
    /\ AllAssigned =>
          /\ \A p \in Points_num :
                /\ dH_assignments[p] \in 0 .. H - 1
                /\ \A h \in 0 .. H - 1 :
                      /\ HubDistance(p, dH_assignments[p]) <= HubDistance(p, h)
                      /\ HubDistance(p, dH_assignments[p]) = HubDistance(p, h)
                            => dH_assignments[p] <= h
          /\ \A h \in 0 .. H - 1 : dH_psum[h] = Population(h)
          /\ CountersSum(H) = n
    /\ pc \in {"Calculate_Distances", "batch", "fused_prefix_sum_copy"} =>
          \A h \in 0 .. H - 1 :
              dH_psum[h] = Cardinality({p \in Counted : dH_assignments[p] = h})

(* C17 witness: all batches are through, a point has two different points *)
(* as equidistant nearest hubs, and two workers of one batch incremented   *)
(* the same counter.                                                       *)
C17_Witness ==
    /\ AllAssigned
    /\ \E p \in Points_num : \E h \in 0 .. H - 1 :
          /\ h # dH_assignments[p]
          /\ dH[h] # dH[dH_assignments[p]]
          /\ HubDistance(p, h) = HubDistance(p, dH_assignments[p])
    /\ \E p, r \in Points_num :
          /\ p # r
          /\ BatchOf(p) = BatchOf(r)
          /\ dH_assignments[p] = dH_assignments[r]


(* ---------------------------------------------------------------------- *)
(* The population of hub h before reassignPoints: the points whose nearest *)
(* hub is h.                                                               *)
PreCount(h) == Cardinality({p \in Points_num : assigned_H(points[p]) = h})

Eligible == {h \in 0 .. H - 1 : PreCount(h) >= k}

(* C18: in reassignPoints, k < n guarantees an alternate hub: whenever a   *)
(* point's hub has fewer than k points some hub had at least k before the  *)
(* kernel, and no assertion of the kernel fails.                           *)
C18_AlternateHubExists ==
    (k < n /\ H < block_size) =>
        /\ abort = "none"
        /\ (\E h \in 0 .. H - 1 : PreCount(h) \in 1 .. k - 1) => Eligible # {}

(* C19: every worker of reassignPoints, in whichever block, reads from     *)
(* initial_counts the counters as they were before the kernel: once a      *)
(* block is past its barrier, its initial_counts[h] is the pre-rebalance   *)
(* population of h, for every hub h.                                       *)
C19_SameSnapshot ==
    (pc = "reassignPoints" /\ ReassignAsserts) =>
        \A b \in DOMAIN smem :
            BlockSynced(b) =>
                \A h \in 0 .. H - 1 : initial_counts(b)[h] = PreCount(h)

(* C20: when reassignPoints has completed without a failed assertion, a    *)
(* hub that had fewer than k points has counter 0 and no point, every      *)
(* other hub's counter is the number of points now assigned to it, the     *)
(* counters sum to n, and a moved point is with the nearest of the hubs    *)
(* that had at least k points.                                             *)
C20_Rebalanced ==
    (pc = "done" /\ launched[Len(launched)] = "reassignPoints") =>
        /\ \A h \in (0 .. H - 1) \ Eligible : dH_psum[h] = 0 /\ Population(h) = 0
        /\ \A h \in Eligible : dH_psum[h] = Population(h)
        /\ CountersSum(H) = n
        /\ \A p \in Points_num :
              dH_assignments[p] # assigned_H(points[p]) =>
                  /\ dH_assignments[p] \in Eligible
                  /\ \A h \in Eligible :
                        HubDistance(p, dH_assignments[p]) <= HubDistance(p, h)


(* ---------------------------------------------------------------------- *)
(* The pairs of slots a < b that Randomly_Select_Hubs gave the same point. *)
DuplicateSlots ==
    {ab \in (0 .. H - 1) \X (0 .. H - 1) :
        ab[1] < ab[2] /\ dH[ab[1]] # Unwritten /\ dH[ab[1]] = dH[ab[2]]}

(* The configurations whose asserts and dispatch let the pipeline through. *)
Accepted ==
    /\ popc(H) = 1
    /\ H >= warp_size
    /\ H <= 2 * block_size
    /\ CEIL_DIV(k, warp_size) \in 1 .. 5

(* The first slot holding the point of slot a. *)
FirstSlot(a) == CHOOSE f \in 0 .. H - 1 : dH[f] = dH[a] /\ \A g \in 0 .. f - 1 : dH[g] # dH[a]

InclusiveSum(i) == Cardinality({p \in Points_num : dH_assignments[p] <= i})

(* Every warp of fused_prefix_sum_copy has returned; the host has not yet  *)
(* shifted the sums.                                                       *)
ScanReturned ==
    pc = "prefix_sum_running" /\ \A w \in 0 .. warp_size - 1 : Finished(w)

(* C22: when fused_prefix_sum_copy has returned, arr[i] and copy[i] hold   *)
(* the inclusive prefix sum of the input counters for every i in [0, H),   *)
(* for every power-of-two H of at least a warp, H above the block's size   *)
(* included, in whatever order the barriers let the warps run.             *)
C22_InclusiveScan ==
    ScanReturned =>
        \A i \in 0 .. H - 1 :
            dH_psum[i] = InclusiveSum(i) /\ dH_psum_copy[i] = InclusiveSum(i)


(* ---------------------------------------------------------------------- *)
(* The hubs in the order a traversal that runs to the end visits them:    *)
(* its own hub (lines 555, 559-560), then ranks 1 .. H-1 of that hub's    *)
(* row of iD (line 619).                                                  *)
VisitOrder(hub) == [r \in 0 .. H - 1 |-> IF r = 0 THEN hub ELSE iD[hub * H + r]]

(* The slots of arr_idx, arr_x, arr_y, arr_z that the batch of one visit  *)
(* <<current_H, scan_hub_from, scan_hub_to>> reads: line 599.             *)
SlotsRead(visit) == {slot \in visit[2] .. visit[3] - 1 : slot < visit[2] + warp_size}

(* The traversal of query qs ended at line 589 with hubs_processed = H. *)
Exhausted(qs) == QueryExit(qs).hubs_processed = H

(* C24: once the index is ranked, for every non-empty hub i the entry at  *)
(* rank 0 of its row is i itself, its own hub followed by ranks 1..H-1 of *)
(* the row names every hub exactly once, and a traversal that ran through *)
(* all H hubs read every slot of the bucketed arrays in exactly one batch.*)
C24_FullTraversal ==
    (Querying /\ abort = "none") =>
        /\ \A i \in 0 .. H - 1 : Population(i) > 0 =>
              /\ iD[i * H] = i
              /\ \A h \in 0 .. H - 1 :
                    Cardinality({r \in 0 .. H - 1 : VisitOrder(i)[r] = h}) = 1
        /\ \A qs \in Points_num : Exhausted(qs) =>
              \A slot \in Points_num :
                 Cardinality({j \in 1 .. Len(QueryExit(qs).visits) :
                                 slot \in SlotsRead(QueryExit(qs).visits[j])}) = 1

(* A finished run in which a traversal ran through several populated      *)
(* hubs, one of them in more than one batch, to the end.                  *)
C24_Witness ==
    /\ pc = "done"
    /\ \E qs \in Points_num :
          /\ Exhausted(qs)
          /\ Cardinality({h \in 0 .. H - 1 : Population(h) > 0}) >= 2
          /\ \E h \in 0 .. H - 1 : Population(h) > warp_size


(* ---------------------------------------------------------------------- *)
(* The batches a traversal with the history `visits` spent on hub h, and  *)
(* the batches the bucket of h has: one per started group of warp_size    *)
(* points, one for an empty bucket.                                       *)
BatchesOn(visits, h) == Cardinality({j \in 1 .. Len(visits) : visits[j][1] = h})

BatchesOfBucket(h) ==
    IF Population(h) = 0 THEN 1 ELSE CEIL_DIV(Population(h), warp_size)

(* The loop of query qs left in state st: within its bounds, and if not   *)
(* exhausted, left because the test of line 589 failed.                   *)
LoopBounded(qs, st) ==
    /\ st.hubs_processed \in 0 .. H
    /\ st.batches = Len(st.visits)
    /\ \A h \in 0 .. H - 1 : BatchesOn(st.visits, h) <= BatchesOfBucket(h)
    /\ st.hubs_processed < H =>
          ~ScanContinues(warpKTop(st.heap), st.dist_to_this_hub,
                         sqrt_l2dist(points[arr_idx[qs]],
                                     points[dH[dH_assignments[arr_idx[qs]]]]))
    /\ Len(st.heap) = k

(* C25: the traversal loop of every query ends: it runs one iteration per *)
(* batch, at most BatchesOfBucket(h) on each hub h, leaves with           *)
(* hubs_processed <= H, and whether it leaves by exhaustion or early, the *)
(* row written for the query holds exactly k pairs.                       *)
C25_LoopBounded ==
    (Querying /\ abort = "none") =>
        \A qs \in Points_num :
           /\ LoopBounded(qs, QueryExit(qs))
           /\ qs \in done => Len(solutions[arr_idx[qs]]) = k

(* A finished run in which one traversal ran through all H hubs, another  *)
(* stopped early, and some bucket took two batches.                       *)
C25_Witness ==
    /\ pc = "done"
    /\ \E qs \in Points_num : Exhausted(qs)
    /\ \E qs \in Points_num : \E h \in 0 .. H - 1 :
          /\ ~Exhausted(qs)
          /\ BatchesOn(QueryExit(qs).visits, h) = 2
          /\ Len(solutions[arr_idx[qs]]) = k


(* ---------------------------------------------------------------------- *)
(* The slots read over the batches of a traversal, batch by batch. *)
RECURSIVE SlotsCounted(_)
SlotsCounted(visits) ==
    IF visits = <<>> THEN 0
    ELSE Cardinality(SlotsRead(Head(visits))) + SlotsCounted(Tail(visits))

(* The traversal of query qs, left in state st, and the hubs without      *)
(* points: a batch on such a hub reads no slot; every batch adds to       *)
(* poitns_scanned the number of slots it reads (line 611), on top of the  *)
(* term of line 587, so a batch on an empty range adds zero; and no       *)
(* padded entry <<FLT_MAX, Points_num>> is retained by the collector.     *)
EmptyHubHandled(qs, st) ==
    /\ \A j \in 1 .. Len(st.visits) :
          Population(st.visits[j][1]) = 0 => SlotsRead(st.visits[j]) = {}
    /\ st.poitns_scanned
          = ScannedTerm(dH_psum[dH_assignments[arr_idx[qs]]],
                        dH_psum[dH_assignments[arr_idx[qs]] + 1])
            + SlotsCounted(st.visits)
    /\ \A i \in 1 .. Len(st.heap) : st.heap[i][2] # n

====
